---- MODULE Spec2Model ----
(***************************************************************************)
(* A model of the register-map code generators (registermaps/vhdl.py and   *)
(* registermaps/component_to_c.py).                                        *)
(*                                                                         *)
(* Seven parts are modelled, each with its own specification over the      *)
(* shared variables:                                                       *)
(*   SpecLegalize  FixReservedWords, the identifier legalization pass      *)
(*   SpecRegister  GenerateD2R, GenerateR2D and GenerateRegUpdate: the     *)
(*                 generated DAT_TO_r, r_TO_DAT and UPDATE_r of a register *)
(*   SpecDispatch  GenerateFunctionBodies: the generated READ / UPDATE     *)
(*                 address dispatch of a register file and of an array     *)
(*   SpecBatch     component_to_c.main: a batch of source files rendered   *)
(*                 to C headers, and the VHDL rendering of its memory maps *)
(*   SpecHeader    generate_single_component: the C header of one          *)
(*                 component, its field constants and its struct layout    *)
(*   SpecTypes     GenerateTypes, then GenerateFunctionBodies: the record  *)
(*                 types of a component and the members the bodies name    *)
(*   SpecAddr      the generated GET_ADDR against the subtype t_addr       *)
(*                                                                         *)
(* Generated VHDL is modelled as data (the list of statements a generator  *)
(* prints, with the bit ranges and case choices it computed) together with *)
(* an interpreter of those statements on bit vectors.  A statement refers  *)
(* to the tree entity it was generated for; the member name it was printed *)
(* with is kept beside it.                                                 *)
(***************************************************************************)
EXTENDS Integers, Sequences, FiniteSets, TLC

VARIABLES
    \* ---- legalization ----
    name,        \* node -> current .name
    identifier,  \* node -> current .identifier (NoIdentifier before a pass)
    changes,     \* the change list the last pass returned
    raised,      \* the last pass ended with an exception
    prevName,    \* node -> .name as it was before the last pass
    prevIdentifier,
    attrs,       \* node -> every other attribute (offset, width, format, storage)
    prevAttrs,   \* node -> those attributes before the last pass
    \* ---- one register and its generated accessors ----
    reg,         \* the Register node: width, bus width, fields
    value,       \* the register value: one bit vector per record member
    dat,         \* the bus word handed to UPDATE_r / DAT_TO_r
    byteen,      \* the byte enables, one bit per lane
    regop,       \* the generated subprogram executed last
    regerr,      \* that execution indexed outside a vector's range
    prevValue,   \* the register value before it
    word,        \* the bus word r_TO_DAT returned
    \* ---- one component and its generated READ / UPDATE dispatch ----
    comp,        \* the Component node with its children
    offset,      \* the address handed to READ_REGFILE / UPDATE_REGFILE
    dispop,      \* the generated procedure executed last
    outcome,     \* what it did: success flag, register accessed, errors
    \* ---- one run of the C header generator over a batch of source files ----
    batch,       \* the command line: the mmap and xrefs flags and the sources
    drv,         \* main's position: phase, cursor, components, maps
    targets,     \* source -> the lines written to its output target so far
    errlog,      \* what main printed to stderr
    attempted,   \* the sources whose generate was called, in order
    vhdl         \* source -> what the VHDL renderer printed for it ("none" before)

legalVars == <<name, identifier, changes, raised, prevName, prevIdentifier, attrs, prevAttrs>>

regVars == <<reg, value, dat, byteen, regop, regerr, prevValue, word>>

dispVars == <<comp, offset, dispop, outcome>>

batchVars == <<batch, drv, targets, errlog, attempted, vhdl>>

vars == <<legalVars, regVars, dispVars, batchVars>>

-----------------------------------------------------------------------------
(* Sequence helpers                                                         *)

Range(s) == {s[i] : i \in 1..Len(s)}

Last(s) == s[Len(s)]

-----------------------------------------------------------------------------
(* FixReservedWords: character classes and reserved words                   *)

upperSeq ==
  <<
    "A", "B", "C", "D", "E", "F", "G", "H", "I", "J", "K", "L", "M", "N",
    "O", "P", "Q", "R", "S", "T", "U", "V", "W", "X", "Y", "Z", "À", "Á",
    "Â", "Ã", "Ä", "Å", "Æ", "Ç", "È", "É", "Ê", "Ë", "Ì", "Í", "Î", "Ï",
    "Ð", "Ñ", "Ò", "Ó", "Ô", "Õ", "Ö", "Ø", "Ù", "Ú", "Û", "Ü", "Ý", "Þ"
  >>

lowerSeq ==
  <<
    "a", "b", "c", "d", "e", "f", "g", "h", "i", "j", "k", "l", "m", "n",
    "o", "p", "q", "r", "s", "t", "u", "v", "w", "x", "y", "z", "à", "á",
    "â", "ã", "ä", "å", "æ", "ç", "è", "é", "ê", "ë", "ì", "í", "î", "ï",
    "ð", "ñ", "ò", "ó", "ô", "õ", "ö", "ø", "ù", "ú", "û", "ü", "ý", "þ"
  >>

reserved_words ==
  {
    <<"a","b","s">>, <<"a","c","c","e","s","s">>, <<"a","f","t","e","r">>,
    <<"a","l","i","a","s">>, <<"a","l","l">>, <<"a","n","d">>,
    <<"a","r","c","h","i","t","e","c","t","u","r","e">>,
    <<"a","r","r","a","y">>, <<"a","s","s","e","r","t">>,
    <<"a","s","s","u","m","e">>,
    <<"a","s","s","u","m","e","_","g","u","a","r","a","n","t","e","e">>,
    <<"a","t","t","r","i","b","u","t","e">>, <<"b","e","g","i","n">>,
    <<"b","l","o","c","k">>, <<"b","o","d","y">>,
    <<"b","u","f","f","e","r">>, <<"b","u","s">>, <<"c","a","s","e">>,
    <<"c","o","m","p","o","n","e","n","t">>,
    <<"c","o","n","f","i","g","u","r","a","t","i","o","n">>,
    <<"c","o","n","s","t","a","n","t">>, <<"c","o","n","t","e","x","t">>,
    <<"c","o","v","e","r">>, <<"d","e","f","a","u","l","t">>,
    <<"d","i","s","c","o","n","n","e","c","t">>, <<"d","o","w","n","t","o">>,
    <<"e","l","s","e">>, <<"e","l","s","i","f">>, <<"e","n","d">>,
    <<"e","n","t","i","t","y">>, <<"e","x","i","t">>,
    <<"f","a","i","r","n","e","s","s">>, <<"f","i","l","e">>,
    <<"f","o","r">>, <<"f","o","r","c","e">>,
    <<"f","u","n","c","t","i","o","n">>, <<"g","e","n","e","r","a","t","e">>,
    <<"g","e","n","e","r","i","c">>, <<"g","r","o","u","p">>,
    <<"g","u","a","r","d","e","d">>, <<"i","f">>,
    <<"i","m","p","u","r","e">>, <<"i","n">>,
    <<"i","n","e","r","t","i","a","l">>, <<"i","n","o","u","t">>,
    <<"i","s">>, <<"l","a","b","e","l">>, <<"l","i","b","r","a","r","y">>,
    <<"l","i","n","k","a","g","e">>, <<"l","i","t","e","r","a","l">>,
    <<"l","o","o","p">>, <<"m","a","p">>, <<"m","o","d">>,
    <<"n","a","n","d">>, <<"n","e","w">>, <<"n","e","x","t">>,
    <<"n","o","r">>, <<"n","o","t">>, <<"n","u","l","l">>, <<"o","f">>,
    <<"o","n">>, <<"o","p","e","n">>, <<"o","r">>,
    <<"o","t","h","e","r","s">>, <<"o","u","t">>,
    <<"p","a","c","k","a","g","e">>, <<"p","a","r","a","m","e","t","e","r">>,
    <<"p","o","r","t">>, <<"p","o","s","t","p","o","n","e","d">>,
    <<"p","r","o","c","e","d","u","r","e">>, <<"p","r","o","c","e","s","s">>,
    <<"p","r","o","p","e","r","t","y">>,
    <<"p","r","o","t","e","c","t","e","d">>, <<"p","u","r","e">>,
    <<"r","a","n","g","e">>, <<"r","e","c","o","r","d">>,
    <<"r","e","g","i","s","t","e","r">>, <<"r","e","j","e","c","t">>,
    <<"r","e","l","e","a","s","e">>, <<"r","e","m">>,
    <<"r","e","p","o","r","t">>, <<"r","e","s","t","r","i","c","t">>,
    <<"r","e","s","t","r","i","c","t","_","g","u","a","r","a","n","t","e","e">>,
    <<"r","e","t","u","r","n">>, <<"r","o","l">>, <<"r","o","r">>,
    <<"s","e","l","e","c","t">>, <<"s","e","q","u","e","n","c","e">>,
    <<"s","e","v","e","r","i","t","y">>, <<"s","h","a","r","e","d">>,
    <<"s","i","g","n","a","l">>, <<"s","l","a">>, <<"s","l","l">>,
    <<"s","r","a">>, <<"s","r","l">>, <<"s","t","r","o","n","g">>,
    <<"s","u","b","t","y","p","e">>, <<"t","h","e","n">>, <<"t","o">>,
    <<"t","r","a","n","s","p","o","r","t">>, <<"t","y","p","e">>,
    <<"u","n","a","f","f","e","c","t","e","d">>, <<"u","n","i","t","s">>,
    <<"u","n","t","i","l">>, <<"u","s","e">>,
    <<"v","a","r","i","a","b","l","e">>, <<"v","m","o","d","e">>,
    <<"v","p","r","o","p">>, <<"v","u","n","i","t">>, <<"w","a","i","t">>,
    <<"w","h","e","n">>, <<"w","h","i","l","e">>, <<"w","i","t","h">>,
    <<"x","n","o","r">>, <<"x","o","r">>
  }

\* str.lower() of one character, as used by node.name.lower()
LowerChar(c) ==
    IF \E i \in 1..Len(upperSeq) : upperSeq[i] = c
    THEN lowerSeq[CHOOSE i \in 1..Len(upperSeq) : upperSeq[i] = c]
    ELSE c

Lower(s) == [i \in 1..Len(s) |-> LowerChar(s[i])]

uppercase == Range(upperSeq)

lowercase == Range(lowerSeq) \cup {"ß", "ÿ"}

letters == uppercase \cup lowercase

digits == {"0", "1", "2", "3", "4", "5", "6", "7", "8", "9"}

word_chars == letters \cup digits \cup {"_"}

\* Python's None, as returned by invalidvhdl for a valid name (falsy, as is "")
None == <<>>

\* The replacement of one later character (the loop body of invalidvhdl)
ReplaceChar(c) == IF c \notin word_chars THEN "_" ELSE c

\* invalidvhdl(name): [raises |-> TRUE] when the first character is no letter
\* (the raise statement itself fails with NameError: ntype and node are not
\* defined there; either way an exception leaves the method), otherwise
\* [raises |-> FALSE, value |-> None or the new name].
invalidvhdl(nm) ==
    LET first    == nm[1]
        rest     == [i \in 1..(Len(nm) - 1) |-> ReplaceChar(nm[i + 1])]
        replaced == \E i \in 2..Len(nm) : nm[i] \notin word_chars
        char     == IF Len(nm) > 1 THEN Last(rest) ELSE first
        newchars == <<first>> \o rest \o (IF char = "_" THEN <<"_", "0">> ELSE <<>>)
        changed  == replaced \/ char = "_"
    IN  IF first \notin letters
        THEN [raises |-> TRUE, value |-> None]
        ELSE [raises |-> FALSE, value |-> IF changed THEN newchars ELSE None]

-----------------------------------------------------------------------------
(* The tree the pass walks: a Component with two Registers, the first of   *)
(* which holds a Field with an Enum.  Children are in declaration order.   *)

Root == 1

Nodes == {1, 2, 3, 4, 5}

NodeKind == <<"Component", "Register", "Register", "Field", "Enum">>

Children == << <<2, 3>>, <<4>>, <<>>, <<5>>, <<>> >>

Parent(n) == CHOOSE p \in Nodes : \E i \in 1..Len(Children[p]) : Children[p][i] = n

\* type(node).__name__.lower()
ntype(node) ==
    CASE NodeKind[node] = "Component" -> "component"
      [] NodeKind[node] = "Register"  -> "register"
      [] NodeKind[node] = "Field"     -> "field"
      [] NodeKind[node] = "Enum"      -> "enum"

NoIdentifier == <<"?">>

\* mutant: the new path is built on the parent's old name
Qualify_oldParent(oldname, newname, childchanges) ==
    [i \in 1..Len(childchanges) |->
        [ctype |-> childchanges[i].ctype,
         old   |-> oldname \o <<".">> \o childchanges[i].old,
         new   |-> oldname \o <<".">> \o childchanges[i].new]]

\* (ctype, oldname + '.' + old, newname + '.' + new) for every child change
Qualify(oldname, newname, childchanges) ==
    [i \in 1..Len(childchanges) |->
        [ctype |-> childchanges[i].ctype,
         old   |-> oldname \o <<".">> \o childchanges[i].old,
         new   |-> newname \o <<".">> \o childchanges[i].new]]

\* mutant: the suffix loses its digit
reservedIdentifier_underscore(oldname) == oldname \o <<"_">>

\* newname = node.name + '_0' for a reserved word
reservedIdentifier(oldname) == oldname \o <<"_", "0">>

\* node.name.lower() in self.reserved_words
isReserved(nm) == Lower(nm) \in reserved_words

RECURSIVE visit(_, _), visitchildren(_, _, _)

\* FixReservedWords.defaultvisit on the tree t = [name, identifier, raised, attrs];
\* the result is the tree after the visit and the returned change list.
defaultvisit(t, node) ==
    LET oldname == t.name[node]
        inv     == invalidvhdl(oldname)
        isinv   == inv.value # None
        isres   == ~isinv /\ isReserved(oldname)
        newname == IF isinv THEN inv.value
                   ELSE IF isres THEN reservedIdentifier(oldname)
                   ELSE oldname
        t1      == [t EXCEPT !.name[node] = IF isinv THEN newname ELSE @,
                             !.identifier[node] = newname]
        own     == IF isinv
                   THEN << [ctype |-> ntype(node) \o " name", old |-> oldname, new |-> newname] >>
                   ELSE IF isres
                   THEN << [ctype |-> ntype(node) \o " identifier", old |-> oldname, new |-> newname] >>
                   ELSE <<>>
        sub     == visitchildren(t1, Children[node], 1)
    IN  IF inv.raises
        THEN [tree |-> [t EXCEPT !.raised = TRUE], changes |-> <<>>]
        ELSE IF sub.tree.raised
        THEN [tree |-> sub.tree, changes |-> <<>>]
        ELSE [tree |-> sub.tree,
              changes |-> own \o Qualify(oldname, newname, sub.changes)]

\* mutant: an Enum is legalized like every other node
visit_Enum_legalized(t, node) == defaultvisit(t, node)

\* FixReservedWords.visit_Enum
visit_Enum(t, node) == [tree |-> t, changes |-> <<>>]

\* Visitor.visit: dispatch on the node's type
visit(t, node) ==
    IF NodeKind[node] = "Enum" THEN visit_Enum(t, node) ELSE defaultvisit(t, node)

\* Visitor.visitchildren: the children in declaration order; the change lists
\* they return, concatenated.  An exception in one child ends the walk.
visitchildren(t, kids, i) ==
    IF i > Len(kids) THEN [tree |-> t, changes |-> <<>>]
    ELSE LET r == visit(t, kids[i])
         IN  IF r.tree.raised THEN r
             ELSE LET more == visitchildren(r.tree, kids, i + 1)
                  IN  [tree |-> more.tree, changes |-> r.changes \o more.changes]

\* Visitor.execute(startnode) of FixReservedWords
execute(t) == visit(t, Root)

-----------------------------------------------------------------------------
(* The variables of the other parts while one part runs                     *)

LegalIdle ==
    /\ name = <<>> /\ identifier = <<>> /\ changes = <<>> /\ raised = FALSE
    /\ prevName = <<>> /\ prevIdentifier = <<>>
    /\ attrs = <<>> /\ prevAttrs = <<>>

RegIdle ==
    /\ reg = <<>> /\ value = <<>> /\ dat = <<>> /\ byteen = <<>>
    /\ regop = "" /\ regerr = FALSE /\ prevValue = <<>> /\ word = <<>>

DispIdle ==
    /\ comp = <<>> /\ offset = 0 /\ dispop = "" /\ outcome = <<>>

BatchIdle ==
    /\ batch = <<>> /\ drv = <<>> /\ targets = <<>> /\ errlog = <<>>
    /\ attempted = <<>> /\ vhdl = <<>>

-----------------------------------------------------------------------------
(* SpecLegalize: the names a tree can carry, and the pass as an action      *)

MaxNameLen == 2

NameChars == {"i", "n", "_"}

\* every string over NameChars of 1..MaxNameLen characters
ShortNames == UNION {[1..k -> NameChars] : k \in 1..MaxNameLen}

ScenarioNames ==
    { <<"o","u","t">>, <<"O","u","t">>, <<"o","u","t","_","0">>,
      <<"a"," ","b">>, <<"a","_","b">>, <<"1","a">>, <<"i"," ">>, <<"n","-","n">>,
      <<"a","s","s","u","m","e"," ","g","u","a","r","a","n","t","e","e">> }

RegisterNames == ShortNames \cup ScenarioNames

\* the names of the second register: the scenarios and the one-letter names
SiblingNames == ScenarioNames \cup [1..1 -> NameChars]

ComponentNames == { <<"u","a","r","t">>, <<"m","a","p">> }

FieldNames == { <<"m","o","d","e">>, <<"t","y","p","e">>, <<"e","n","-","1">> }

EnumNames == { <<"o","n">>, <<"h","i","_">> }

\* the attributes of a node besides its name: two trees that differ in them
NodeAttrs ==
    { [n \in Nodes |-> [offset |-> n - 1, width |-> 8, format |-> "unsigned",
                        readOnly |-> FALSE, writeOnly |-> FALSE]],
      [n \in Nodes |-> [offset |-> 2 * n, width |-> n, format |-> "bits",
                        readOnly |-> n = 2, writeOnly |-> n = 3]] }

InitLegalize ==
    /\ \E c \in ComponentNames, r1 \in RegisterNames, r2 \in SiblingNames,
          f \in FieldNames, e \in EnumNames :
          /\ r1 # r2
          /\ name = <<c, r1, r2, f, e>>
    /\ identifier = [n \in Nodes |-> NoIdentifier]
    /\ changes = <<>>
    /\ raised = FALSE
    /\ prevName = name
    /\ prevIdentifier = identifier
    /\ attrs \in NodeAttrs
    /\ prevAttrs = attrs
    /\ RegIdle
    /\ DispIdle
    /\ BatchIdle

\* basic.begin: changer = FixReservedWords(); changer.execute(startnode)
Legalize ==
    /\ ~raised
    /\ LET r == execute([name |-> name, identifier |-> identifier, raised |-> FALSE,
                          attrs |-> attrs])
       IN  /\ name' = r.tree.name
           /\ identifier' = r.tree.identifier
           /\ attrs' = r.tree.attrs
           /\ raised' = r.tree.raised
           /\ changes' = r.changes
    /\ prevName' = name
    /\ prevIdentifier' = identifier
    /\ prevAttrs' = attrs
    /\ UNCHANGED <<regVars, dispVars, batchVars>>

NextLegalize == Legalize

SpecLegalize == InitLegalize /\ [][NextLegalize]_vars

-----------------------------------------------------------------------------
(* Legalization: properties                                                 *)

\* The VHDL identifier grammar (2008 LRM 15.2): a letter first, then letters,
\* digits and underscores, and no underscore at the end.
ValidVHDL(nm) ==
    /\ Len(nm) >= 1
    /\ nm[1] \in letters
    /\ \A i \in 1..Len(nm) : nm[i] \in word_chars
    /\ Last(nm) # "_"

ReservedWord(nm) == LET low == Lower(nm) IN low \in reserved_words

NonEnum == {n \in Nodes : NodeKind[n] # "Enum"}

\* A pass has been executed (and returned or raised).
PassDone == raised \/ identifier[Root] # NoIdentifier

\* The last pass returned normally.
PassReturned == ~raised /\ identifier[Root] # NoIdentifier

\* The last pass ran on a tree an earlier pass had already legalized.
SecondPass == PassReturned /\ prevIdentifier[Root] # NoIdentifier

RECURSIVE QualifiedName(_, _)
\* the dotted path of node n over the naming f (root first)
QualifiedName(f, n) ==
    IF n = Root THEN f[n] ELSE QualifiedName(f, Parent(n)) \o <<".">> \o f[n]

\* the entries of the change list recorded for node n
EntriesOf(n) ==
    LET q == QualifiedName(prevName, n)
    IN  {i \in 1..Len(changes) : changes[i].old = q}

\* C1: a second pass over an already legalized tree returns an empty change list
\* and changes no name and no identifier.
C1_Idempotent ==
    SecondPass =>
        /\ changes = <<>>
        /\ name = prevName
        /\ identifier = prevIdentifier

\* C8: after a pass, a non-Enum entity whose name is valid VHDL but a reserved
\* word (in any case) has identifier = name + "_0", its name unchanged and
\* exactly one change entry, from its qualified name to its qualified
\* identifier; a valid name that is not reserved gives identifier = name and
\* no entry.
C8_ReservedWordRenamed ==
    PassReturned =>
        \A n \in NonEnum :
            /\ (ValidVHDL(prevName[n]) /\ ReservedWord(prevName[n])) =>
                  /\ identifier[n] = prevName[n] \o <<"_", "0">>
                  /\ name[n] = prevName[n]
                  /\ Cardinality(EntriesOf(n)) = 1
                  /\ \A i \in EntriesOf(n) :
                        /\ changes[i].new = QualifiedName(identifier, n)
                        /\ changes[i].ctype = ntype(n) \o " identifier"
            /\ (ValidVHDL(prevName[n]) /\ ~ReservedWord(prevName[n])) =>
                  /\ identifier[n] = prevName[n]
                  /\ name[n] = prevName[n]
                  /\ EntriesOf(n) = {}

\* C8 witness: a pass returned on a tree whose second node was named "out".
C8_Witness ==
    /\ PassReturned
    /\ prevName[2] = <<"o","u","t">>
    /\ identifier[2] = <<"o","u","t","_","0">>
    /\ Len(changes) >= 1

\* C9: an entity whose name violates the grammar (first character, a later
\* character, trailing underscore) is legalized without an exception, gets an
\* identifier that satisfies the grammar, and one change entry.
C9_InvalidNameLegalized ==
    PassDone =>
        \A n \in NonEnum :
            ~ValidVHDL(prevName[n]) =>
                /\ ~raised
                /\ ValidVHDL(identifier[n])
                /\ Cardinality(EntriesOf(n)) = 1

\* C10: siblings with distinct names have distinct identifiers after a pass.
C10_SiblingIdentifiersUnique ==
    PassReturned =>
        \A p \in Nodes : \A i, j \in 1..Len(Children[p]) :
            LET n == Children[p][i]
                m == Children[p][j]
            IN  (i # j /\ prevName[n] # prevName[m]) => identifier[n] # identifier[m]

Enums == {n \in Nodes : NodeKind[n] = "Enum"}

RECURSIVE PreOrder(_), PreOrderOf(_, _)
\* the nodes of the subtree of n, depth first, an entity before its descendants
PreOrder(n) == <<n>> \o PreOrderOf(Children[n], 1)

PreOrderOf(kids, i) ==
    IF i > Len(kids) THEN <<>> ELSE PreOrder(kids[i]) \o PreOrderOf(kids, i + 1)

\* the entities a pass gave an identifier other than their original name
ChangedNodes ==
    SelectSeq(PreOrder(Root), LAMBDA n : n \in NonEnum /\ identifier[n] # prevName[n])

\* C12: the change list of a pass has one entry per changed entity, in
\* depth-first pre-order; its old name is the dotted path of the original names
\* from the root to the entity, its new name the dotted path of the identifiers
\* after the pass.
C12_QualifiedChangeLog ==
    PassReturned =>
        /\ Len(changes) = Len(ChangedNodes)
        /\ \A i \in 1..Len(changes) :
              /\ changes[i].old = QualifiedName(prevName, ChangedNodes[i])
              /\ changes[i].new = QualifiedName(identifier, ChangedNodes[i])

\* C12 witness: the component, its first register and that register's field
\* were all changed, and so was the second register, recorded after the field.
C12_Witness ==
    /\ PassReturned
    /\ prevIdentifier[Root] = NoIdentifier
    /\ Len(changes) = 4
    /\ changes[1].new = <<"m","a","p","_","0">>
    /\ changes[3].old = <<"m","a","p",".","o","u","t",".","t","y","p","e">>
    /\ changes[3].new = <<"m","a","p","_","0",".","o","u","t","_","0",".","t","y","p","e","_","0">>
    /\ changes[4].old = <<"m","a","p",".","a"," ","b">>
    /\ changes[4].new = <<"m","a","p","_","0",".","a","_","b">>

-----------------------------------------------------------------------------
(* Address space (space.Space): an ordered list of slots covering a range.  *)
(* A slot is [obj, start, size]; obj = 0 marks a gap, otherwise obj is the  *)
(* index of the child among the owner's children.                           *)

Min(a, b) == IF a < b THEN a ELSE b

Max(a, b) == IF a > b THEN a ELSE b

RECURSIVE SpaceFrom(_, _, _, _)
\* the slots from child i on, the range being filled up to pos
SpaceFrom(children, i, pos, total) ==
    IF i > Len(children)
    THEN IF pos < total THEN << [obj |-> 0, start |-> pos, size |-> total - pos] >>
         ELSE <<>>
    ELSE LET c == children[i]
         IN  (IF c.offset > pos
              THEN << [obj |-> 0, start |-> pos, size |-> c.offset - pos] >>
              ELSE <<>>)
             \o << [obj |-> i, start |-> c.offset, size |-> c.size] >>
             \o SpaceFrom(children, i + 1, c.offset + c.size, total)

\* the space of an owner whose children sit at their offsets in [0, total)
SpaceOf(children, total) == SpaceFrom(children, 1, 0, total)

\* Space.items(): the occupied slots, gaps ignored
SpaceItems(space) == SelectSeq(space, LAMBDA slot : slot.obj # 0)

\* mutant: the slots that meet [a, b), none of them clipped
SpaceSlice_unclipped(space, a, b) ==
    SelectSeq(space, LAMBDA slot : slot.start < b /\ slot.start + slot.size > a)

\* space[a:b]: a space over [a, b) holding the slots restricted and clipped
\* to it; what of [a, b) lies beyond the end of the space is a gap
SpaceSlice(space, a, b) ==
    LET clip(slot) == [obj   |-> slot.obj,
                       start |-> Max(slot.start, a),
                       size  |-> Min(slot.start + slot.size, b) - Max(slot.start, a)]
        inside     == SelectSeq(space, LAMBDA slot :
                          slot.start < b /\ slot.start + slot.size > a)
        end        == IF space = <<>> THEN 0 ELSE Last(space).start + Last(space).size
        from       == Max(end, a)
    IN  [i \in 1..Len(inside) |-> clip(inside[i])]
        \o (IF from < b THEN << [obj |-> 0, start |-> from, size |-> b - from] >> ELSE <<>>)

-----------------------------------------------------------------------------
(* Bit vectors: functions from 0..n-1 to {0, 1}                             *)

Bit == {0, 1}

Zeros(n) == [i \in 0..(n - 1) |-> 0]

\* v(high downto low) as a vector indexed from 0
Bits(v, high, low) == [i \in 0..(high - low) |-> v[low + i]]

\* v with v(high downto low) := src, src indexed from 0
SetBits(v, high, low, src) ==
    [i \in DOMAIN v |-> IF low <= i /\ i <= high THEN src[i - low] ELSE v[i]]

InRange(v, high, low) == low <= high /\ low \in DOMAIN v /\ high \in DOMAIN v

-----------------------------------------------------------------------------
(* Register accessors: GenerateD2R, GenerateR2D, GenerateRegUpdate          *)
(* A Register node is [width, buswidth, fields]; a simple register has no  *)
(* fields.  A Field is [name, identifier, offset, width].                   *)

LaneBits == 8

IsComplex(node) == node.fields # <<>>

\* node.space of a Register: its fields in a range of node.width bits
RegisterSpace(node) ==
    SpaceOf([i \in 1..Len(node.fields) |->
                [offset |-> node.fields[i].offset, size |-> node.fields[i].width]],
            node.width)

\* range(0, node.width, 8)
LaneStarts(node) ==
    [k \in 1..((node.width + LaneBits - 1) \div LaneBits) |-> (k - 1) * LaneBits]

\* GenerateD2R.visit_Field: name => dat(high [downto low])
D2R_visit_Field(f) ==
    [member |-> f.name, scalar |-> f.width = 1,
     high |-> f.offset + f.width - 1, low |-> f.offset]

\* GenerateD2R.simpleRegister: return dat(0) or dat(high downto 0)
D2R_simpleRegister(node) ==
    << [member |-> "", scalar |-> node.width = 1, high |-> node.width - 1, low |-> 0] >>

\* GenerateD2R.complexRegister: the aggregate, one association per field
D2R_complexRegister(node) ==
    [i \in 1..Len(node.fields) |-> D2R_visit_Field(node.fields[i])]

GenerateD2R(node) ==
    IF IsComplex(node) THEN D2R_complexRegister(node) ELSE D2R_simpleRegister(node)

\* mutant: the field's offset is left out of the range
R2D_visit_Field_noOffset(f) ==
    [member |-> f.identifier, scalar |-> f.width = 1, high |-> f.width - 1, low |-> 0]

\* GenerateR2D.visit_Field: ret(high [downto low]) := reg.identifier
R2D_visit_Field(f) ==
    [member |-> f.identifier, scalar |-> f.width = 1,
     high |-> f.offset + f.width - 1, low |-> f.offset]

\* GenerateR2D.simpleRegister: ret(0) or ret(high downto 0) := reg
R2D_simpleRegister(node) ==
    << [member |-> node.identifier, scalar |-> node.width = 1,
        high |-> node.width - 1, low |-> 0] >>

R2D_complexRegister(node) ==
    [i \in 1..Len(node.fields) |-> R2D_visit_Field(node.fields[i])]

GenerateR2D(node) ==
    IF IsComplex(node) THEN R2D_complexRegister(node) ELSE R2D_simpleRegister(node)

\* end = min(start+7, node.width)
simpleLaneEnd(start, width) == Min(start + 7, width)

\* GenerateRegUpdate.simpleRegister: one guarded assignment per lane
Update_simpleRegister(node) ==
    LET starts == LaneStarts(node)
    IN  [k \in 1..Len(starts) |->
            LET start == starts[k]
                end   == simpleLaneEnd(start, node.width)
            IN  [lane |-> k - 1,
                 stmts |-> << [obj |-> 1, member |-> "", indexable |-> TRUE,
                               single |-> start = end,
                               fh |-> end, fl |-> start,
                               dh |-> end, dl |-> start] >>]]

\* mutant: the whole field is assigned in every lane it touches
Update_fieldLine_wholeField(node, slot) ==
    LET obj == node.fields[slot.obj]
    IN  [obj |-> slot.obj, member |-> obj.identifier,
         indexable |-> obj.width > 1,
         single |-> FALSE,
         fh |-> obj.width - 1,
         fl |-> 0,
         dh |-> obj.offset + obj.width - 1,
         dl |-> obj.offset]

\* the assignment printed for one slot of a lane's subspace
Update_fieldLine(node, slot) ==
    LET obj == node.fields[slot.obj]
    IN  [obj |-> slot.obj, member |-> obj.identifier,
         indexable |-> slot.size > 1 \/ obj.width > 1,
         single |-> FALSE,
         fh |-> slot.start + slot.size - 1 - obj.offset,
         fl |-> slot.start - obj.offset,
         dh |-> slot.start + slot.size - 1,
         dl |-> slot.start]

\* GenerateRegUpdate.complexRegister: per lane, the fields of space[start:start+8]
Update_complexRegister(node) ==
    LET starts == LaneStarts(node)
        block(k) ==
            LET subspace == SpaceSlice(RegisterSpace(node), starts[k], starts[k] + 8)
                occupied == SpaceItems(subspace)
            IN  [lane |-> k - 1,
                 stmts |-> [j \in 1..Len(occupied) |-> Update_fieldLine(node, occupied[j])]]
        all == [k \in 1..Len(starts) |-> block(k)]
    IN  SelectSeq(all, LAMBDA b : b.stmts # <<>>)

GenerateRegUpdate(node) ==
    IF IsComplex(node) THEN Update_complexRegister(node) ELSE Update_simpleRegister(node)

-----------------------------------------------------------------------------
(* The meaning of the generated statements.  A register value is a sequence *)
(* of bit vectors, one per record member (exactly one for a simple         *)
(* register); a member of width 1 is a std_logic and cannot be indexed.    *)
(* An index outside a vector's range ends the execution with an error.     *)

\* one assignment of an UPDATE body, executed on member vector v
ExecAssign(st, v, d) ==
    IF st.indexable
    THEN LET high == IF st.single THEN st.fl ELSE st.fh
             dhigh == IF st.single THEN st.dl ELSE st.dh
         IN  IF  /\ InRange(v, high, st.fl)
                 /\ InRange(d, dhigh, st.dl)
                 /\ DOMAIN v # {0}
             THEN [val |-> SetBits(v, high, st.fl, Bits(d, dhigh, st.dl)), err |-> FALSE]
             ELSE [val |-> v, err |-> TRUE]
    ELSE IF DOMAIN v = {0} /\ st.dl \in DOMAIN d
         THEN [val |-> [i \in {0} |-> d[st.dl]], err |-> FALSE]
         ELSE [val |-> v, err |-> TRUE]

RECURSIVE ExecStmts(_, _, _, _)
ExecStmts(stmts, i, val, d) ==
    IF i > Len(stmts) THEN [val |-> val, err |-> FALSE]
    ELSE LET st == stmts[i]
             r  == ExecAssign(st, val[st.obj], d)
         IN  IF r.err THEN [val |-> val, err |-> TRUE]
             ELSE ExecStmts(stmts, i + 1, [val EXCEPT ![st.obj] = r.val], d)

RECURSIVE ExecBlocks(_, _, _, _, _)
\* "if byteen(lane) then <stmts> end if;" for each block in turn
ExecBlocks(blocks, k, val, d, be) ==
    IF k > Len(blocks) THEN [val |-> val, err |-> FALSE]
    ELSE IF be[blocks[k].lane] = 1
    THEN LET r == ExecStmts(blocks[k].stmts, 1, val, d)
         IN  IF r.err THEN r ELSE ExecBlocks(blocks, k + 1, r.val, d, be)
    ELSE ExecBlocks(blocks, k + 1, val, d, be)

\* UPDATE_r(dat, byteen, reg)
UPDATE(node, d, be, val) == ExecBlocks(GenerateRegUpdate(node), 1, val, d, be)

\* DAT_TO_r(dat): the value of the returned expression or aggregate
DAT_TO(node, d) ==
    LET assoc == GenerateD2R(node)
    IN  [i \in 1..Len(assoc) |->
            IF assoc[i].scalar THEN [b \in {0} |-> d[assoc[i].high]]
            ELSE Bits(d, assoc[i].high, assoc[i].low)]

RECURSIVE ExecR2D(_, _, _, _)
ExecR2D(stmts, i, val, ret) ==
    IF i > Len(stmts) THEN ret
    ELSE LET st == stmts[i]
         IN  ExecR2D(stmts, i + 1, val,
                 IF st.scalar THEN [ret EXCEPT ![st.high] = val[i][0]]
                 ELSE SetBits(ret, st.high, st.low, val[i]))

\* r_TO_DAT(reg): ret starts as (others => '0')
TO_DAT(node, val) == ExecR2D(GenerateR2D(node), 1, val, Zeros(node.buswidth))

-----------------------------------------------------------------------------
(* SpecRegister: registers, values and the accessor calls                   *)

MaxWidth == 10

MaxFields == 2

RECURSIVE SortedSeq(_)
\* the elements of a set of numbers in increasing order
SortedSeq(S) ==
    IF S = {} THEN <<>>
    ELSE LET m == CHOOSE x \in S : \A y \in S : x <= y
         IN  <<m>> \o SortedSeq(S \ {m})

MemberNames == <<"MODE", "OUT", "ENABLE", "IN", "TYPE">>

MemberIdentifiers == <<"MODE", "OUT_0", "ENABLE", "IN_0", "TYPE_0">>

\* the field layouts: 2k cut points in 0..MaxWidth bound k disjoint fields
CutSets ==
    {c \in SUBSET (0..MaxWidth) :
        Cardinality(c) % 2 = 0 /\ Cardinality(c) >= 2 /\ Cardinality(c) <= 2 * MaxFields}

FieldsOf(c) ==
    LET cuts == SortedSeq(c)
    IN  [j \in 1..(Len(cuts) \div 2) |->
            [name |-> MemberNames[j], identifier |-> MemberIdentifiers[j],
             offset |-> cuts[2 * j - 1], width |-> cuts[2 * j] - cuts[2 * j - 1]]]

SimpleRegisters ==
    {[name |-> "DATA", identifier |-> "DATA", width |-> w, buswidth |-> MaxWidth,
      fields |-> <<>>] : w \in 1..MaxWidth}

ComplexRegisters ==
    {[name |-> "STAT", identifier |-> "STAT", width |-> MaxWidth, buswidth |-> MaxWidth,
      fields |-> FieldsOf(c)] : c \in CutSets}

\* the 32-bit CTRL register: MODE is 4 bits at offset 0, ENABLE 1 bit at offset 8
CTRL ==
    [name |-> "CTRL", identifier |-> "CTRL", width |-> 32, buswidth |-> 32,
     fields |-> << [name |-> "MODE", identifier |-> "MODE", offset |-> 0, width |-> 4],
                   [name |-> "ENABLE", identifier |-> "ENABLE", offset |-> 8, width |-> 1] >>]

Registers == SimpleRegisters \cup ComplexRegisters \cup {CTRL}

\* the widths of the members of a register value
MemberWidths(node) ==
    IF IsComplex(node) THEN [i \in 1..Len(node.fields) |-> node.fields[i].width]
    ELSE <<node.width>>

\* register values: all zeros, all ones, and two alternating patterns
Values(node) ==
    LET w == MemberWidths(node)
    IN  {[m \in 1..Len(w) |-> [i \in 0..(w[m] - 1) |-> 0]],
         [m \in 1..Len(w) |-> [i \in 0..(w[m] - 1) |-> 1]],
         [m \in 1..Len(w) |-> [i \in 0..(w[m] - 1) |-> (i + m) % 2]]}

\* bus words: 0x105 (bits 0, 2 and 8) and its complement
DatWords(node) ==
    {[i \in 0..(node.buswidth - 1) |-> IF i \in {0, 2, 8} THEN 1 ELSE 0],
     [i \in 0..(node.buswidth - 1) |-> IF i \in {0, 2, 8} THEN 0 ELSE 1]}

NumLanes(node) == (node.buswidth + LaneBits - 1) \div LaneBits

ByteEnables(node) == [0..(NumLanes(node) - 1) -> Bit]

InitRegister ==
    /\ LegalIdle
    /\ DispIdle
    /\ BatchIdle
    /\ reg \in Registers
    /\ value \in Values(reg)
    /\ dat = <<>>
    /\ byteen = <<>>
    /\ regop = ""
    /\ regerr = FALSE
    /\ prevValue = <<>>
    /\ word = <<>>

\* a call of UPDATE_r(dat, byteen, reg)
CallUpdate ==
    /\ regop = ""
    /\ \E d \in DatWords(reg), be \in ByteEnables(reg) :
          LET r == UPDATE(reg, d, be, value)
          IN  /\ dat' = d
              /\ byteen' = be
              /\ value' = r.val
              /\ regerr' = r.err
    /\ prevValue' = value
    /\ regop' = "UPDATE"
    /\ UNCHANGED <<reg, word>>
    /\ UNCHANGED <<legalVars, dispVars, batchVars>>

\* a call of DAT_TO_r(dat)
CallDatTo ==
    /\ regop = ""
    /\ \E d \in DatWords(reg) :
          /\ dat' = d
          /\ value' = DAT_TO(reg, d)
    /\ prevValue' = value
    /\ regop' = "DAT_TO"
    /\ UNCHANGED <<reg, byteen, regerr, word>>
    /\ UNCHANGED <<legalVars, dispVars, batchVars>>

\* a call of r_TO_DAT(reg)
CallToDat ==
    /\ regop = ""
    /\ word' = TO_DAT(reg, value)
    /\ regop' = "TO_DAT"
    /\ UNCHANGED <<reg, value, dat, byteen, regerr, prevValue>>
    /\ UNCHANGED <<legalVars, dispVars, batchVars>>

\* DAT_TO_r applied to the word r_TO_DAT returned
CallDatToOfToDat ==
    /\ regop = "TO_DAT"
    /\ value' = DAT_TO(reg, word)
    /\ prevValue' = value
    /\ regop' = "DAT_TO(TO_DAT)"
    /\ UNCHANGED <<reg, dat, byteen, regerr, word>>
    /\ UNCHANGED <<legalVars, dispVars, batchVars>>

NextRegister ==
    \/ CallUpdate
    \/ CallDatTo
    \/ CallToDat
    \/ CallDatToOfToDat

SpecRegister == InitRegister /\ [][NextRegister]_vars

-----------------------------------------------------------------------------
(* Register accessors: properties                                           *)

AllZero(be) == \A k \in DOMAIN be : be[k] = 0

AllOnes(be) == \A k \in DOMAIN be : be[k] = 1

\* the bit of the bus word that member m's bit i corresponds to
AbsoluteBit(node, m, i) == IF IsComplex(node) THEN node.fields[m].offset + i ELSE i

\* C2: UPDATE_r with no byte enabled leaves the register value unchanged; with
\* every byte enabled the register value becomes DAT_TO_r(dat).
C2_ByteEnableMasking ==
    regop = "UPDATE" =>
        /\ AllZero(byteen) => (~regerr /\ value = prevValue)
        /\ AllOnes(byteen) => (~regerr /\ value = DAT_TO(reg, dat))

\* C3: UPDATE_r of a complex register writes bit i of field f from dat(f.offset+i)
\* exactly when the lane of that bit is enabled and leaves every other bit as it
\* was, whichever lanes a field spans; for CTRL with lane 0 alone enabled and
\* dat = 0x105, MODE becomes 5 and ENABLE keeps its value.
C3_PerLaneUpdate ==
    (regop = "UPDATE" /\ IsComplex(reg)) =>
        /\ ~regerr
        /\ \A m \in 1..Len(reg.fields) : \A i \in 0..(reg.fields[m].width - 1) :
              LET bit == reg.fields[m].offset + i
              IN  value[m][i] = IF byteen[bit \div 8] = 1 THEN dat[bit] ELSE prevValue[m][i]
        /\ (reg = CTRL /\ byteen = [k \in 0..3 |-> IF k = 0 THEN 1 ELSE 0] /\ dat[0] = 1) =>
              /\ value[1] = [i \in 0..3 |-> IF i \in {0, 2} THEN 1 ELSE 0]
              /\ value[2] = prevValue[2]

\* C3 witness: a field wider than a lane that straddles the lane boundary was
\* updated with lane 1 alone enabled, and its low bits kept their old value
\* while a high bit took a new one.
C3_Witness ==
    /\ regop = "UPDATE"
    /\ IsComplex(reg)
    /\ ~regerr
    /\ \E m \in 1..Len(reg.fields) :
          /\ reg.fields[m].offset < 8
          /\ reg.fields[m].offset + reg.fields[m].width > 9
          /\ reg.fields[m].width > 8
          /\ byteen = [k \in 0..1 |-> IF k = 1 THEN 1 ELSE 0]
          /\ \E i \in 0..(reg.fields[m].width - 1) : value[m][i] # prevValue[m][i]
          /\ value[m][0] = prevValue[m][0]

RECURSIVE SumSizes(_, _)
SumSizes(space, i) == IF i > Len(space) THEN 0 ELSE space[i].size + SumSizes(space, i + 1)

\* slots in strictly increasing positions, none overlapping, whose sizes sum to
\* hi - lo; occupied slots in declaration order
Covers(space, lo, hi) ==
    /\ Len(space) >= 1
    /\ space[1].start = lo
    /\ \A i \in 1..Len(space) : space[i].size >= 1
    /\ \A i \in 1..(Len(space) - 1) :
          /\ space[i].start < space[i + 1].start
          /\ space[i].start + space[i].size <= space[i + 1].start
    /\ Last(space).start + Last(space).size = hi
    /\ SumSizes(space, 1) = hi - lo
    /\ \A i, j \in 1..Len(space) :
          (i < j /\ space[i].obj # 0 /\ space[j].obj # 0) => space[i].obj < space[j].obj

\* the gap-ignoring enumeration of the part [lo, hi) of node's field space is,
\* from the fields alone: one (child, offset, size) per field that meets
\* [lo, hi), clipped to it, and nothing else
ItemsAreTheFields(node, items, lo, hi) ==
    LET meets == {m \in 1..Len(node.fields) :
                     /\ node.fields[m].offset < hi
                     /\ node.fields[m].offset + node.fields[m].width > lo}
    IN  /\ Len(items) = Cardinality(meets)
        /\ \A k \in 1..Len(items) : items[k].obj \in meets
        /\ \A m \in meets :
              \E k \in 1..Len(items) :
                  /\ items[k].obj = m
                  /\ items[k].start = Max(node.fields[m].offset, lo)
                  /\ items[k].start + items[k].size
                        = Min(node.fields[m].offset + node.fields[m].width, hi)

\* the slices of a register's space: every [a, b) inside it, and the lanes
\* [start, start + 8) GenerateRegUpdate takes
SliceBounds(node) ==
    {<<a, b>> \in (0..node.width) \X (0..node.width) : a < b}
    \cup {<<LaneStarts(node)[k], LaneStarts(node)[k] + 8>> : k \in 1..Len(LaneStarts(node))}

\* the layout property of one register's space and of all its slices
LayoutOf(node) ==
    LET space == RegisterSpace(node)
    IN  /\ Covers(space, 0, node.width)
        /\ ItemsAreTheFields(node, SpaceItems(space), 0, node.width)
        /\ \A s \in SliceBounds(node) :
              LET slice == SpaceSlice(space, s[1], s[2])
              IN  /\ Covers(slice, s[1], s[2])
                  /\ ItemsAreTheFields(node, SpaceItems(slice), s[1], s[2])

\* that property, tabulated over the registers of the model
LayoutHolds == [node \in Registers |-> LayoutOf(node)]

\* C15: the space of a register and every slice space[a:b] of it yield slots
\* (occupied or gap) in strictly increasing positions that do not overlap and
\* whose sizes sum to the range (b - a for a slice), occupied slots in
\* declaration order; items() yields exactly the occupied slots.
C15_SpaceLayout == LayoutHolds[reg]

\* C15 witness: UPDATE_r was generated and run for a register whose field
\* straddles bit 8; the slice of lane 1 holds the upper part of the field and
\* a gap up to bit 16.
C15_Witness ==
    /\ regop = "UPDATE"
    /\ IsComplex(reg)
    /\ reg.width = MaxWidth
    /\ LET slice == SpaceSlice(RegisterSpace(reg), 8, 16)
       IN  /\ Len(slice) = 2
           /\ slice[1].obj # 0
           /\ slice[1].start = 8
           /\ reg.fields[slice[1].obj].offset < 8
           /\ slice[2].obj = 0
           /\ slice[2].start + slice[2].size = 16

-----------------------------------------------------------------------------
(* Address dispatch: GenerateAddressConstants and GenerateFunctionBodies    *)
(* A Component is [kind, name, size, children].  A child is a Register            *)
(*   [kind, name, identifier, offset, size, readOnly, writeOnly]            *)
(* or a RegisterArray, which has framesize, framecount and its own children *)
(* (the registers of one frame, at their offsets inside the frame) besides. *)

\* GenerateAddressConstants.visit_Register: <name>_ADDR
ADDR(node) == node.offset

\* GenerateAddressConstants.visit_RegisterArray: the four constants
BASEADDR(node) == node.offset

LASTADDR(node) == node.offset + node.size - 1

FRAMESIZE(node) == node.framesize

FRAMECOUNT(node) == node.framesize

\* GenerateTypes.visit_RegisterArray: ta_<name> is array(<high> downto 0)
ArrayHigh(node) == node.size - 1

\* generate_array_struct (C): <name>[<count>], for both shapes of array
C_ArrayLength(node) == node.framecount

\* node.space of a Component (size words) or a RegisterArray (one frame)
NodeSpace(node) ==
    SpaceOf(node.children,
            IF node.kind = "RegisterArray" THEN node.framesize ELSE node.size)

\* the slots _readwhenlines walks: "for obj, _, _ in node.space"
readSlots(node) == NodeSpace(node)

\* the slots _updatewhenlines walks: "for obj, _, _ in node.space.items()"
updateSlots(node) == SpaceItems(NodeSpace(node))

\* the when line of one child: an exact address for a Register, the range
\* BASEADDR to LASTADDR for a RegisterArray
WhenLine(node, slot) ==
    LET obj == node.children[slot.obj]
    IN  IF obj.kind = "Register"
        THEN [kind |-> "Register", obj |-> slot.obj, member |-> obj.identifier,
              lo |-> ADDR(obj), hi |-> ADDR(obj)]
        ELSE [kind |-> "RegisterArray", obj |-> slot.obj, member |-> obj.identifier,
              lo |-> BASEADDR(obj), hi |-> LASTADDR(obj)]

OthersLine == [kind |-> "others", obj |-> 0, member |-> "", lo |-> 0, hi |-> -1]

\* GenerateFunctionBodies._readwhenlines
_readwhenlines(node) ==
    LET slots    == readSlots(node)
        skipped(slot) == slot.obj = 0 \/ node.children[slot.obj].writeOnly
        kept     == SelectSeq(slots, LAMBDA slot : ~skipped(slot))
        gaps     == \E i \in 1..Len(slots) : skipped(slots[i])
    IN  [i \in 1..Len(kept) |-> WhenLine(node, kept[i])]
        \o (IF gaps THEN <<OthersLine>> ELSE <<>>)

\* GenerateFunctionBodies._updatewhenlines
_updatewhenlines(node) ==
    LET slots    == updateSlots(node)
        skipped(slot) == slot.obj = 0 \/ node.children[slot.obj].readOnly
        kept     == SelectSeq(slots, LAMBDA slot : ~skipped(slot))
        gaps     == \E i \in 1..Len(slots) : skipped(slots[i])
    IN  [i \in 1..Len(kept) |-> WhenLine(node, kept[i])]
        \o (IF gaps THEN <<OthersLine>> ELSE <<>>)

\* "case sel is <whenlines> end case;": the line executed for sel, 0 if none is
CaseChoice(lines, sel) ==
    LET hits == {i \in 1..Len(lines) :
                    lines[i].kind = "others" \/ (lines[i].lo <= sel /\ sel <= lines[i].hi)}
    IN  IF hits = {} THEN 0 ELSE CHOOSE i \in hits : \A j \in hits : i <= j

\* What a call did: the success flag, the register it accessed (a path of
\* child indices and the frame index, <<>> for none), whether a case had no
\* line for the address, and whether idx left its declared range or the
\* bounds of the array.
Outcome(success, target, nomatch, rangeerr) ==
    [success |-> success, target |-> target, nomatch |-> nomatch, rangeerr |-> rangeerr]

\* idx := offset / <name>_FRAMESIZE, idx being "integer range 0 to
\* <name>_FRAMECOUNT-1" and indexing ra
IdxOf(node, offs) == offs \div FRAMESIZE(node)

IdxInRange(node, idx) == idx <= FRAMECOUNT(node) - 1 /\ idx <= ArrayHigh(node)

\* _simpleregarrayread / _simpleregarrayupdate: the single child of the frame
simpleregarray(node, me, offs, blockedflag) ==
    LET item  == SpaceItems(NodeSpace(node))[1]
        child == node.children[item.obj]
        idx   == IdxOf(node, offs)
    IN  IF child[blockedflag] THEN Outcome(FALSE, <<>>, FALSE, FALSE)
        ELSE IF ~IdxInRange(node, idx) THEN Outcome(TRUE, <<>>, FALSE, TRUE)
        ELSE Outcome(TRUE, <<me, idx, item.obj>>, FALSE, FALSE)

\* _complexregarrayread / _complexregarrayupdate: idx, offs, then the case
complexregarray(node, me, offs, lines) ==
    LET idx  == IdxOf(node, offs)
        intra == offs % FRAMESIZE(node)
        hit  == CaseChoice(lines, intra)
    IN  IF ~IdxInRange(node, idx) THEN Outcome(TRUE, <<>>, FALSE, TRUE)
        ELSE IF hit = 0 THEN Outcome(TRUE, <<>>, TRUE, FALSE)
        ELSE IF lines[hit].kind = "others" THEN Outcome(FALSE, <<>>, FALSE, FALSE)
        ELSE Outcome(TRUE, <<me, idx, lines[hit].obj>>, FALSE, FALSE)

\* len(node.space) == 1
IsSimpleArray(node) == Len(SpaceItems(NodeSpace(node))) = 1

\* READ_<array>(offset, ra, dat, success), as visit_RegisterArray generates it
READ_array(node, me, offs) ==
    IF IsSimpleArray(node) THEN simpleregarray(node, me, offs, "writeOnly")
    ELSE complexregarray(node, me, offs, _readwhenlines(node))

\* UPDATE_<array>(dat, byteen, offset, ra, success)
UPDATE_array(node, me, offs) ==
    IF IsSimpleArray(node) THEN simpleregarray(node, me, offs, "readOnly")
    ELSE complexregarray(node, me, offs, _updatewhenlines(node))

\* _regfileread: READ_REGFILE(offset, reg, dat, success)
READ_REGFILE(node, offs) ==
    LET lines == _readwhenlines(node)
        hit   == CaseChoice(lines, offs)
    IN  IF hit = 0 THEN Outcome(TRUE, <<>>, TRUE, FALSE)
        ELSE IF lines[hit].kind = "others" THEN Outcome(FALSE, <<>>, FALSE, FALSE)
        ELSE IF lines[hit].kind = "Register" THEN Outcome(TRUE, <<lines[hit].obj>>, FALSE, FALSE)
        ELSE READ_array(node.children[lines[hit].obj], lines[hit].obj,
                        offs - BASEADDR(node.children[lines[hit].obj]))

\* _regfileupdate: UPDATE_REGFILE(dat, byteen, offset, reg, success)
UPDATE_REGFILE(node, offs) ==
    LET lines == _updatewhenlines(node)
        hit   == CaseChoice(lines, offs)
    IN  IF hit = 0 THEN Outcome(TRUE, <<>>, TRUE, FALSE)
        ELSE IF lines[hit].kind = "others" THEN Outcome(FALSE, <<>>, FALSE, FALSE)
        ELSE IF lines[hit].kind = "Register" THEN Outcome(TRUE, <<lines[hit].obj>>, FALSE, FALSE)
        ELSE UPDATE_array(node.children[lines[hit].obj], lines[hit].obj,
                          offs - BASEADDR(node.children[lines[hit].obj]))

-----------------------------------------------------------------------------
(* SpecDispatch: components and the calls of their READ / UPDATE procedures *)

MaxPre == 1

MaxFrameSize == 2

MaxFrameCount == 3

\* what one word of a space holds: nothing, or a register of a storage class
Cells == {"gap", "rw", "ro", "wo"}

RegisterNode(nm, off, cell) ==
    [kind |-> "Register", name |-> nm, identifier |-> nm, offset |-> off, size |-> 1,
     readOnly |-> cell = "ro", writeOnly |-> cell = "wo"]

RECURSIVE RegistersAt(_, _, _)
\* the registers of the words i.. of a space, named after their position
RegistersAt(cells, names, i) ==
    IF i > Len(cells) THEN <<>>
    ELSE (IF cells[i] = "gap" THEN <<>>
          ELSE << RegisterNode(names[i], i - 1, cells[i]) >>)
         \o RegistersAt(cells, names, i + 1)

ArrayNode(off, kids, fsize, count) ==
    [kind |-> "RegisterArray", name |-> "ARR", identifier |-> "ARR", offset |-> off,
     size |-> fsize * count, framesize |-> fsize, framecount |-> count,
     readOnly |-> FALSE, writeOnly |-> FALSE, children |-> kids]

PreNames == <<"CTRL", "STAT", "DATA", "MASK">>

FrameNames == <<"A", "B", "C", "D">>

PreCells == UNION {[1..k -> Cells] : k \in 0..MaxPre}

FrameCells ==
    {f \in UNION {[1..k -> Cells] : k \in 1..MaxFrameSize} :
        \E i \in 1..Len(f) : f[i] # "gap"}

\* the frames of the enumerated arrays, and the array of 4 frames of 8 words
\* holding A at frame offset 0 and B at frame offset 4
Frames ==
    {[kids |-> RegistersAt(f, FrameNames, 1), fsize |-> Len(f), count |-> n] :
        f \in FrameCells, n \in 1..MaxFrameCount}
    \cup {[kids |-> << RegisterNode("A", 0, "rw"), RegisterNode("B", 4, "rw") >>,
           fsize |-> 8, count |-> 4]}

Components ==
    {[kind |-> "Component", name |-> "uart", size |-> Len(pre) + fr.fsize * fr.count,
      children |-> RegistersAt(pre, PreNames, 1)
                   \o << ArrayNode(Len(pre), fr.kids, fr.fsize, fr.count) >>] :
        pre \in PreCells, fr \in Frames}
    \cup {[kind |-> "Component", name |-> "uart", size |-> Len(pre) + 1,
           children |-> RegistersAt(pre \o <<c>>, PreNames, 1)] :
             pre \in PreCells, c \in Cells}

InitDispatch ==
    /\ LegalIdle
    /\ RegIdle
    /\ BatchIdle
    /\ comp \in Components
    /\ offset = 0
    /\ dispop = ""
    /\ outcome = <<>>

\* READ_REGFILE(offset, reg, dat, success) for an address of t_addr
CallReadRegfile ==
    /\ dispop = ""
    /\ \E a \in 0..(comp.size - 1) :
          /\ offset' = a
          /\ outcome' = READ_REGFILE(comp, a)
    /\ dispop' = "READ"
    /\ UNCHANGED <<comp, legalVars, regVars, batchVars>>

\* UPDATE_REGFILE(dat, byteen, offset, reg, success)
CallUpdateRegfile ==
    /\ dispop = ""
    /\ \E a \in 0..(comp.size - 1) :
          /\ offset' = a
          /\ outcome' = UPDATE_REGFILE(comp, a)
    /\ dispop' = "UPDATE"
    /\ UNCHANGED <<comp, legalVars, regVars, batchVars>>

\* UPDATESIG_REGFILE: the same case, printed with fn = UPDATESIG
CallUpdateSigRegfile ==
    /\ dispop = ""
    /\ \E a \in 0..(comp.size - 1) :
          /\ offset' = a
          /\ outcome' = UPDATE_REGFILE(comp, a)
    /\ dispop' = "UPDATESIG"
    /\ UNCHANGED <<comp, legalVars, regVars, batchVars>>

NextDispatch ==
    \/ CallReadRegfile
    \/ CallUpdateRegfile
    \/ CallUpdateSigRegfile

SpecDispatch == InitDispatch /\ [][NextDispatch]_vars

-----------------------------------------------------------------------------
(* Address dispatch: properties                                             *)

\* what the words of a space hold, from the tree alone: the child placed at
\* word a of node's space, or 0 for a gap
ChildAt(node, a) ==
    LET at == {i \in 1..Len(node.children) :
                  node.children[i].offset <= a
                  /\ a < node.children[i].offset + node.children[i].size}
    IN  IF at = {} THEN 0 ELSE CHOOSE i \in at : TRUE

IsArrayChild(node, i) == i # 0 /\ node.children[i].kind = "RegisterArray"

IsHeterogeneous(arr) == Len(arr.children) > 1

\* C5: an access at a flat offset inside a register array goes to element
\* offset / framesize and, in a heterogeneous array, to the frame child at
\* offset mod framesize; in the array of 4 frames of 8 words, flat offset 12 is
\* element 1, register B, wherever the array is placed.
C5_ArrayDispatch ==
    (dispop \in {"READ", "UPDATE"} /\ IsArrayChild(comp, ChildAt(comp, offset))) =>
        LET me    == ChildAt(comp, offset)
            arr   == comp.children[me]
            flat  == offset - arr.offset
            index == flat \div arr.framesize
            intra == flat % arr.framesize
            kid   == ChildAt(arr, intra)
            blocked == kid = 0 \/ (IF dispop = "READ" THEN arr.children[kid].writeOnly
                                   ELSE arr.children[kid].readOnly)
        IN  /\ ~outcome.rangeerr
            /\ ~blocked => outcome.target = <<me, index, kid>>
            /\ (blocked /\ IsHeterogeneous(arr)) => outcome.target = <<>>
            /\ (arr.framesize = 8 /\ flat = 12) =>
                  outcome.target = <<me, 1, 2>> /\ arr.children[2].name = "B"

\* the scenario of C5 alone: flat offset 12 of the 4 x 8 array reads B of element 1
C5_Scenario ==
    (dispop = "READ" /\ IsArrayChild(comp, ChildAt(comp, offset))
       /\ comp.children[ChildAt(comp, offset)].framesize = 8
       /\ offset - comp.children[ChildAt(comp, offset)].offset = 12) =>
        /\ outcome.success
        /\ outcome.target = <<ChildAt(comp, offset), 1, 2>>

\* the space (component or frame of a heterogeneous array) an access at
\* offset is dispatched in, and the address inside it
SpaceOfAccess ==
    LET me == ChildAt(comp, offset)
    IN  IF IsArrayChild(comp, me) /\ IsHeterogeneous(comp.children[me])
        THEN [node |-> comp.children[me], path |-> <<me, (offset - comp.children[me].offset)
                                                            \div comp.children[me].framesize>>,
              addr |-> (offset - comp.children[me].offset) % comp.children[me].framesize]
        ELSE [node |-> comp, path |-> <<>>, addr |-> offset]

HasOthers(lines) == \E i \in 1..Len(lines) : lines[i].kind = "others"

HasGap(node) ==
    \E a \in 0..((IF node.kind = "RegisterArray" THEN node.framesize ELSE node.size) - 1) :
        ChildAt(node, a) = 0

\* every component space and every heterogeneous-array space of comp
DispatchSpaces ==
    {comp}
    \cup {comp.children[i] : i \in {j \in 1..Len(comp.children) :
                                       IsArrayChild(comp, j) /\ IsHeterogeneous(comp.children[j])}}

\* C6: the READ case of a space has one line per readable child and the others
\* line exactly when the space has a gap or a write-only child; a read in a gap
\* or at a write-only register gives success = false, a read at a readable
\* register gives success = true and that register's word.
C6_ReadDispatch ==
    /\ dispop = "READ" =>
          \A sp \in DispatchSpaces :
              LET lines == _readwhenlines(sp)
              IN  /\ HasOthers(lines) <=>
                        (HasGap(sp) \/ \E i \in 1..Len(sp.children) : sp.children[i].writeOnly)
                  /\ \A i \in 1..Len(sp.children) :
                        ~sp.children[i].writeOnly =>
                            Cardinality({l \in 1..Len(lines) : lines[l].obj = i}) = 1
    /\ dispop = "READ" =>
          LET sp  == SpaceOfAccess
              kid == ChildAt(sp.node, sp.addr)
          IN  /\ (kid = 0 \/ (kid # 0 /\ sp.node.children[kid].writeOnly)) =>
                    ~outcome.success
              /\ (kid # 0 /\ sp.node.children[kid].kind = "Register"
                    /\ ~sp.node.children[kid].writeOnly) =>
                    /\ outcome.success
                    /\ ~outcome.rangeerr
                    /\ outcome.target = sp.path \o <<kid>>

\* C7: the UPDATE and UPDATESIG case of a space has the others line exactly
\* when the space has a gap or a read-only child, so an update addressed into a
\* gap gives success = false.
C7_UpdateDispatch ==
    /\ dispop \in {"UPDATE", "UPDATESIG"} =>
          \A sp \in DispatchSpaces :
              HasOthers(_updatewhenlines(sp)) <=>
                  (HasGap(sp) \/ \E i \in 1..Len(sp.children) : sp.children[i].readOnly)
    /\ dispop \in {"UPDATE", "UPDATESIG"} =>
          LET sp  == SpaceOfAccess
              kid == ChildAt(sp.node, sp.addr)
          IN  kid = 0 => ~outcome.success

\* the register arrays of comp
ArraysOf(node) == {i \in 1..Len(node.children) : IsArrayChild(node, i)}

\* C13: in the generated package <name>_ADDR is the register's offset, and for a
\* register array _BASEADDR is its offset, _LASTADDR its offset + size - 1,
\* _FRAMESIZE its frame size and _FRAMECOUNT its frame count, so that
\* FRAMESIZE * FRAMECOUNT = LASTADDR - BASEADDR + 1.
C13_AddressConstants ==
    dispop # "" =>
        /\ \A i \in 1..Len(comp.children) :
              comp.children[i].kind = "Register" =>
                  ADDR(comp.children[i]) = comp.children[i].offset
        /\ \A i \in ArraysOf(comp) :
              LET arr == comp.children[i]
              IN  /\ BASEADDR(arr) = arr.offset
                  /\ LASTADDR(arr) = arr.offset + arr.size - 1
                  /\ FRAMESIZE(arr) = arr.framesize
                  /\ FRAMECOUNT(arr) = arr.framecount
                  /\ FRAMESIZE(arr) * FRAMECOUNT(arr) = LASTADDR(arr) - BASEADDR(arr) + 1
                  /\ \A k \in 1..Len(arr.children) :
                        ADDR(arr.children[k]) = arr.children[k].offset

\* C14: the array type of a register array has exactly framecount elements, in
\* VHDL (ta_<name> is array(high downto 0), high + 1 elements) and in C
\* (<name>[count]), whatever the frame size.
C14_ArrayTypeLength ==
    dispop # "" =>
        \A i \in ArraysOf(comp) :
            LET arr == comp.children[i]
            IN  /\ ArrayHigh(arr) + 1 = arr.framecount
                /\ C_ArrayLength(arr) = arr.framecount

-----------------------------------------------------------------------------
(* C header generation (component_to_c.py).                                 *)
(*                                                                         *)
(* A generator prints lines to its output and may raise part-way.  It is   *)
(* an operator giving [out, err]: the lines printed up to its return or    *)
(* its raise, and the exception raised (type "none" when it returned).     *)
(* A line is a record of what it declares; a C name is the sequence of the *)
(* parts that the code joins with '_'.                                     *)

NoError == [type |-> "none", msg |-> "", element |-> <<>>]

\* what sourcefile and sourceline say of an element
Element(node) == [kind |-> node.kind, name |-> node.name,
                  sourcefile |-> node.sourcefile, sourceline |-> node.sourceline]

\* OutputterError(msg, element): args[0] and args[1]
OutputterError(msg, node) ==
    [type |-> "OutputterError", msg |-> msg, element |-> Element(node)]

\* children[0] of an empty list
IndexError == [type |-> "IndexError", msg |-> "list index out of range", element |-> <<>>]

Emitted(lines) == [out |-> lines, err |-> NoError]

Raised(e) == [out |-> <<>>, err |-> e]

\* a; b -- b runs only when a returned
Then(a, b) ==
    IF a.err.type # "none" THEN a ELSE [out |-> a.out \o b.out, err |-> b.err]

\* node.space of an element of the tree: its children at their offsets
C_space(node) ==
    SpaceOf(node.children,
            IF node.kind = "RegisterArray" THEN node.framesize
            ELSE IF node.kind = "Register" THEN 32
            ELSE node.size)

\* make_header_filename('', sourcefile): root + ".h"
make_header_filename(sourcefile) == << sourcefile[1], "h" >>

\* define(name, val): val is a number, or ref + val when ref names a macro
define(nm, ref, val) == [kind |-> "define", name |-> nm, ref |-> ref, val |-> val]

\* Python integers have no width; a value is held as the set of its bits set
One == {0}

\* mutant: the shift left out
Shl_none(v, n) == v

\* v << n
Shl(v, n) == {b + n : b \in v}

\* v - 1, for v > 0: the lowest bit set is cleared and all below it are set
Dec(v) ==
    LET low == CHOOSE b \in v : \A c \in v : b <= c
    IN  (v \ {low}) \cup {b \in 0..low : b < low}

\* define(name, '0x{0:08X}u'.format(v))
hexdefine(nm, v) == [kind |-> "hexdefine", name |-> nm, bits |-> v]

\* register_format(reg)
register_format(node) ==
    IF node.readOnly THEN "__I" ELSE IF node.writeOnly THEN "__O" ELSE "__IO"

\* s.rstrip(";\n") + '[count]': the last declaration becomes an array
WithCount(lines, count) ==
    IF lines = <<>>
    THEN << [kind |-> "member", name |-> "", fmt |-> "", count |-> count] >>
    ELSE [k \in 1..Len(lines) |->
            IF k = Len(lines) THEN [lines[k] EXCEPT !.count = count] ELSE lines[k]]

RECURSIVE generate_struct(_)
RECURSIVE generate_struct_innards(_, _, _)

\* mutant: a gap gets one reserved member, whatever its size
generate_struct_innards_oneRsvd(node, space, i) ==
    IF i > Len(space) THEN Emitted(<<>>)
    ELSE Then(IF space[i].obj # 0
              THEN generate_struct(node.children[space[i].obj])
              ELSE Emitted(<< [kind |-> "rsvd", pos |-> space[i].start] >>),
              generate_struct_innards(node, space, i + 1))

\* the slots i.. of the space of node
generate_struct_innards(node, space, i) ==
    IF i > Len(space) THEN Emitted(<<>>)
    ELSE Then(IF space[i].obj # 0
              THEN generate_struct(node.children[space[i].obj])
              ELSE Emitted([k \in 1..space[i].size |->
                              [kind |-> "rsvd", pos |-> space[i].start + k - 1]]),
              generate_struct_innards(node, space, i + 1))

generate_register_struct(self) ==
    IF self.size # 1
    THEN Raised(OutputterError("Don't know how to deal with register sizes other than 1.",
                               self))
    ELSE Emitted(<< [kind |-> "member", name |-> self.name,
                     fmt |-> register_format(self), count |-> 0] >>)

generate_array_struct(self) ==
    IF Len(C_space(self)) > 1
    THEN Then(Emitted(<< [kind |-> "struct_open"] >>),
         Then(generate_struct_innards(self, C_space(self), 1),
              Emitted(<< [kind |-> "struct_close", name |-> self.name,
                          count |-> self.count] >>)))
    ELSE LET s == generate_struct_innards(self, SpaceItems(C_space(self)), 1)
         IN  Then([out |-> <<>>, err |-> s.err],
                  Emitted(WithCount(s.out, self.count)))

generate_struct(node) ==
    IF node.kind = "RegisterArray" THEN generate_array_struct(node)
    ELSE generate_register_struct(node)

\* the defines of one field
field_defines(fieldname, f) ==
    << define(fieldname \o <<"LSB">>, <<>>, f.offset) >>
    \o (IF f.size = 1 /\ f.enums = <<>>
        THEN << hexdefine(fieldname, Shl(One, f.offset)) >>
        ELSE << hexdefine(fieldname \o <<"MASK">>, Shl(Dec(Shl(One, f.size)), f.offset)),
                [kind |-> "macro", name |-> fieldname, lsb |-> fieldname \o <<"LSB">>] >>
             \o [k \in 1..Len(f.enums) |->
                    [kind |-> "enumdef", name |-> fieldname \o << f.enums[k].name >>,
                     macro |-> fieldname, arg |-> f.enums[k].value]])

RECURSIVE register_fields(_, _, _, _)
\* for f in reversed(fields), from fields[i] down
register_fields(self, fields, regname, i) ==
    IF i = 0 THEN Emitted(<<>>)
    ELSE IF fields[i].kind # "Field"
         THEN Raised(OutputterError(
                  "Hit non-Field term inside of Register, can't deal with this.", self))
         ELSE Then(Emitted(field_defines(regname \o << fields[i].name >>, fields[i])),
                   register_fields(self, fields, regname, i - 1))

generate_register_bitfields(self, compname) ==
    LET items  == SpaceItems(C_space(self))
        fields == [k \in 1..Len(items) |-> self.children[items[k].obj]]
    IN  Then(Emitted(IF fields # <<>>
                     THEN << [kind |-> "comment", text |-> << self.name, "Field Descriptions" >>] >>
                     ELSE <<>>),
             register_fields(self, fields, << compname, self.name >>, Len(fields)))

RECURSIVE generate_bitfields(_, _, _, _)
\* the occupied slots i.. that have a space of their own
generate_bitfields(node, items, compname, i) ==
    IF i > Len(items) THEN Emitted(<<>>)
    ELSE LET obj == node.children[items[i].obj]
         IN  Then(IF obj.children = <<>> THEN Emitted(<<>>)
                  ELSE IF obj.kind = "RegisterArray"
                       THEN generate_bitfields(obj, SpaceItems(C_space(obj)), compname, 1)
                       ELSE generate_register_bitfields(obj, compname),
                  generate_bitfields(node, items, compname, i + 1))

generate_single_component(cmp, standalone) ==
    Then(Emitted(<< [kind |-> "comment", text |-> << cmp.name, "Register Map" >>] >>
                 \o (IF standalone
                     THEN << [kind |-> "ifndef", hdr |-> make_header_filename(cmp.sourcefile)] >>
                     ELSE <<>>)
                 \o << [kind |-> "typedef_open"] >>),
    Then(generate_struct_innards(cmp, C_space(cmp), 1),
    Then(Emitted(<< [kind |-> "typedef_close", name |-> cmp.name] >>),
    Then(generate_bitfields(cmp, SpaceItems(C_space(cmp)), cmp.name, 1),
         Emitted(IF standalone THEN << [kind |-> "endif"] >> ELSE <<>>)))))

\* generate_baseaddrs: one define per occupied slot, relative to <MAP>_BASE
generate_baseaddrs(mmap, items) ==
    [k \in 1..Len(items) |->
        define(<< mmap.name, mmap.children[items[k].obj].name, "BASE" >>,
               << mmap.name, "BASE" >>, items[k].start)]

generate_instance_peripherals(self, basename) ==
    Emitted(<< [kind |-> "peripheral", name |-> << basename, self.name >>,
                comp |-> self.binding, count |-> 0,
                base |-> << basename, self.name, "BASE" >>] >>)

generate_array_peripherals(self, basename) ==
    IF self.children = <<>>
    THEN Raised(IndexError)    \* len(children) > 1 is false, children[0] raises
    ELSE IF Len(self.children) > 1 \/ self.children[1].kind # "Instance"
    THEN Raised(OutputterError(
             "Instance Arrays allowed only for single Instances, not groups.", self))
    ELSE LET inst == self.children[1]
         IN  Emitted(<< [kind |-> "peripheral", name |-> << basename, inst.name >>,
                         comp |-> inst.binding, count |-> self.count,
                         base |-> << basename, inst.name, "BASE" >>] >>)

RECURSIVE generate_peripherals(_, _, _)
generate_peripherals(mmap, items, i) ==
    IF i > Len(items) THEN Emitted(<<>>)
    ELSE LET obj == mmap.children[items[i].obj]
         IN  Then(IF obj.kind = "InstanceArray"
                  THEN generate_array_peripherals(obj, mmap.name)
                  ELSE generate_instance_peripherals(obj, mmap.name),
                  generate_peripherals(mmap, items, i + 1))

\* mutant: the bindings of the instances only, instance arrays left out
references_instancesOnly(mmap) ==
    {mmap.children[i].binding :
        i \in {k \in 1..Len(mmap.children) : mmap.children[k].kind = "Instance"}}

\* set(inst.binding for inst in mmap.getChildren())
references(mmap) ==
    {mmap.children[i].binding : i \in 1..Len(mmap.children)}

\* the orders in which a set can be iterated
Orders(S) ==
    {s \in [1..Cardinality(S) -> S] : \A i, j \in 1..Cardinality(S) : s[i] = s[j] => i = j}

RECURSIVE inline_references(_, _, _)
\* for comp in references: comp.generate(output, standalone = False)
inline_references(refs, cmap, i) ==
    IF i > Len(refs) THEN Emitted(<<>>)
    ELSE Then(generate_single_component(cmap[refs[i]], FALSE),
              inline_references(refs, cmap, i + 1))

\* refs: the references of mmap in the order the set yields them;
\* cmap: the component each binding leads to
generate_memory_map(mmap, external_reference, refs, cmap) ==
    Then(Emitted(<< [kind |-> "comment", text |-> << mmap.name, "Memory Map" >>],
                    [kind |-> "ifndef", hdr |-> make_header_filename(mmap.sourcefile)] >>),
    Then(IF external_reference
         THEN Emitted([k \in 1..Len(refs) |->
                          [kind |-> "include",
                           file |-> make_header_filename(cmap[refs[k]].sourcefile)]])
         ELSE inline_references(refs, cmap, 1),
    Then(Emitted(<< [kind |-> "comment", text |-> << "Peripheral memory map" >>],
                    define(<< mmap.name, "BASE" >>, <<>>, mmap.base) >>
                 \o generate_baseaddrs(mmap, SpaceItems(C_space(mmap)))
                 \o << [kind |-> "comment", text |-> << "Peripheral declaration" >>] >>),
    Then(generate_peripherals(mmap, SpaceItems(C_space(mmap)), 1),
         Emitted(<< [kind |-> "endif"] >>)))))

-----------------------------------------------------------------------------
(* VHDL rendering of a memory map (vhdl.py)                                 *)

\* GenerateAddressConstants.visit_MemoryMap: pass
AddressConstants_visit_MemoryMap(node) == <<>>

\* basic.visit_MemoryMap: pass -- what rendering a memory map prints
basic_visit_MemoryMap(node) == <<>>

-----------------------------------------------------------------------------
(* The batch driver (component_to_c.main)                                   *)

MaxSources == 3

HtiField(nm, off, sz, enums) ==
    [kind |-> "Field", name |-> nm, offset |-> off, size |-> sz, enums |-> enums,
     children |-> <<>>]

HtiRegister(nm, file, line, off, sz, access, kids) ==
    [kind |-> "Register", name |-> nm, sourcefile |-> << file, "xml" >>,
     sourceline |-> line, offset |-> off, size |-> sz,
     readOnly |-> access = "ro", writeOnly |-> access = "wo", children |-> kids]

HtiRegisterArray(nm, file, line, off, n, fsize, kids) ==
    [kind |-> "RegisterArray", name |-> nm, sourcefile |-> << file, "xml" >>,
     sourceline |-> line, offset |-> off, size |-> n * fsize, count |-> n,
     framesize |-> fsize, children |-> kids]

HtiComponent(nm, file, sz, kids) ==
    [kind |-> "Component", name |-> nm, sourcefile |-> << file, "xml" >>,
     sourceline |-> 1, size |-> sz, children |-> kids]

HtiInstance(nm, file, line, off, sz, bound) ==
    [kind |-> "Instance", name |-> nm, sourcefile |-> << file, "xml" >>,
     sourceline |-> line, offset |-> off, size |-> sz, binding |-> bound,
     children |-> <<>>]

HtiInstanceArray(nm, file, line, off, n, fsize, bound, kids) ==
    [kind |-> "InstanceArray", name |-> nm, sourcefile |-> << file, "xml" >>,
     sourceline |-> line, offset |-> off, size |-> n * fsize, count |-> n,
     framesize |-> fsize, binding |-> bound, children |-> kids]

HtiMemoryMap(nm, file, baseaddr, sz, kids) ==
    [kind |-> "MemoryMap", name |-> nm, sourcefile |-> << file, "xml" >>,
     sourceline |-> 1, base |-> baseaddr, size |-> sz, children |-> kids]

\* a control register with two fields, a reserved word, an array of two words
UART ==
    HtiComponent("UART", "uart", 4, <<
        HtiRegister("CTRL", "uart", 3, 0, 1, "rw", <<
            HtiField("EN", 0, 1, <<>>),
            HtiField("MODE", 4, 2, << [name |-> "FAST", value |-> 1] >>) >>),
        HtiRegisterArray("BUF", "uart", 7, 2, 2, 1, <<
            HtiRegister("DATA", "uart", 8, 0, 1, "ro", <<>>) >>) >>)

\* one register without fields
TIMER ==
    HtiComponent("TIMER", "timer", 1, <<
        HtiRegister("COUNT", "timer", 3, 0, 1, "rw", <<>>) >>)

\* a register of one word, then a register of two words
WIDE ==
    HtiComponent("WIDE", "wide", 3, <<
        HtiRegister("STAT", "wide", 3, 0, 1, "ro", << HtiField("RDY", 0, 1, <<>>) >>),
        HtiRegister("BIG", "wide", 5, 1, 2, "rw", <<>>) >>)

\* a register holding a field and a register
ODD ==
    HtiComponent("ODD", "odd", 1, <<
        HtiRegister("CFG", "odd", 3, 0, 1, "rw", <<
            HtiRegister("SUB", "odd", 4, 0, 1, "rw", <<>>),
            HtiField("A", 8, 1, <<>>) >>) >>)

\* two instances of UART around a gap, and an array of two TIMERs
SOC ==
    HtiMemoryMap("SOC", "soc", 64, 24, <<
        HtiInstance("U0", "soc", 3, 0, 4, "UART"),
        HtiInstance("U1", "soc", 4, 8, 4, "UART"),
        HtiInstanceArray("TIMERS", "soc", 5, 16, 2, 1, "TIMER", <<
            HtiInstance("TIM", "soc", 6, 0, 1, "TIMER") >>) >>)

\* an instance of UART and an array of two more, all at base 0
MINI ==
    HtiMemoryMap("MINI", "mini", 0, 12, <<
        HtiInstance("U0", "mini", 3, 0, 4, "UART"),
        HtiInstanceArray("UARTS", "mini", 4, 4, 2, 4, "UART", <<
            HtiInstance("UARTS", "mini", 5, 0, 4, "UART") >>) >>)

\* an instance, then an instance array without children
EMPTY ==
    HtiMemoryMap("EMPTY", "empty", 16, 8, <<
        HtiInstance("U0", "empty", 3, 0, 4, "UART"),
        HtiInstanceArray("NONE", "empty", 4, 4, 1, 4, "UART", <<>>) >>)

\* an instance, then an instance array of two children
MULTI ==
    HtiMemoryMap("MULTI", "multi", 16, 12, <<
        HtiInstance("U0", "multi", 3, 0, 4, "UART"),
        HtiInstanceArray("PAIR", "multi", 4, 4, 2, 4, "UART", <<
            HtiInstance("P0", "multi", 5, 0, 2, "UART"),
            HtiInstance("P1", "multi", 6, 2, 2, "UART") >>) >>)

\* a source file: the tree it holds, whether Parse returns, whether finish does
Source(root, parses, finishes) ==
    [root |-> root, parses |-> parses, finishes |-> finishes]

Sources ==
    {Source(r, TRUE, TRUE) : r \in {UART, TIMER, WIDE, ODD, SOC, MINI, EMPTY, MULTI}}
    \cup {Source(r, FALSE, TRUE) : r \in {TIMER, MINI}}
    \cup {Source(r, TRUE, FALSE) : r \in {WIDE, SOC, MINI}}

\* the components of a source list that main keeps
ReadComponents(src) ==
    {src[i].root.name : i \in {k \in 1..Len(src) :
        src[k].root.kind = "Component" /\ src[k].parses /\ src[k].finishes}}

\* the components that the instances and instance arrays of a map bind
BoundComponents(mmap) == {mmap.children[k].binding : k \in 1..Len(mmap.children)}

\* the command lines: distinct files, every map with the components it binds
SourceLists ==
    {src \in UNION {[1..n -> Sources] : n \in 1..MaxSources} :
        /\ \A i, j \in 1..Len(src) :
              src[i].root.name = src[j].root.name => i = j
        /\ \A i \in 1..Len(src) :
              src[i].root.kind = "MemoryMap" =>
                  BoundComponents(src[i].root) \subseteq ReadComponents(src)}

\* MemoryMap.build_component_map(components): the components by name
build_component_map(src, components) ==
    [nm \in {src[components[k]].root.name : k \in 1..Len(components)} |->
        src[CHOOSE i \in Range(components) : src[i].root.name = nm].root]

\* components_as_files = (not maps) or (not args.mmap) or (args.xrefs)
components_as_files(args, maps) == maps = <<>> \/ ~args.mmap \/ args.xrefs

\* where main goes after the maps: "if components_as_files: for comp in components"
AfterMaps(args, maps, components) ==
    IF components_as_files(args, maps) /\ components # <<>> THEN "components" ELSE "done"

\* where main goes after reading: "if maps and args.mmap: ... for mmap in maps"
AfterRead(args, maps, components) ==
    IF maps # <<>> /\ args.mmap THEN "maps" ELSE AfterMaps(args, maps, components)

\* what an except clause printed to stderr for source i: the name, source file
\* and line its message gives (0: no line), and the exception it caught
Report(handler, i, nm, file, line, err) ==
    [handler |-> handler, source |-> i, name |-> nm, sourcefile |-> file,
     sourceline |-> line, caught |-> err]

ParseError == [type |-> "ParseError", msg |-> "", element |-> <<>>]

InitBatch ==
    /\ LegalIdle
    /\ RegIdle
    /\ DispIdle
    /\ \E m, x \in BOOLEAN, src \in SourceLists :
          batch = [mmap |-> m, xrefs |-> x, source |-> src]
    /\ drv = [phase |-> "read", cursor |-> 1, components |-> <<>>, maps |-> <<>>]
    /\ targets = [i \in 1..Len(batch.source) |-> <<>>]
    /\ errlog = <<>>
    /\ attempted = <<>>
    /\ vhdl = [i \in 1..Len(batch.source) |-> [rendered |-> FALSE, out |-> <<>>]]

\* one turn of "for source in args.source"
ReadSource ==
    /\ drv.phase = "read"
    /\ LET i      == drv.cursor
           s      == batch.source[i]
           failed == ~s.parses \/ (s.root.kind = "Component" /\ ~s.finishes)
           comps  == IF ~failed /\ s.root.kind = "Component"
                     THEN Append(drv.components, i) ELSE drv.components
           maps   == IF ~failed /\ s.root.kind = "MemoryMap"
                     THEN Append(drv.maps, i) ELSE drv.maps
       IN  /\ errlog' = IF failed
                        THEN Append(errlog, Report("read", i, "", s.root.sourcefile, 0,
                                                   ParseError))
                        ELSE errlog
           /\ drv' = IF i < Len(batch.source)
                     THEN [drv EXCEPT !.cursor = i + 1, !.components = comps, !.maps = maps]
                     ELSE [phase |-> AfterRead(batch, maps, comps), cursor |-> 1,
                           components |-> comps, maps |-> maps]
    /\ UNCHANGED <<batch, targets, attempted, vhdl, legalVars, regVars, dispVars>>

\* one turn of "for mmap in maps": finish, open the target, generate
GenerateMap ==
    /\ drv.phase = "maps"
    /\ LET i    == drv.maps[drv.cursor]
           s    == batch.source[i]
           cmap == build_component_map(batch.source, drv.components)
           on   == IF drv.cursor < Len(drv.maps)
                   THEN [drv EXCEPT !.cursor = drv.cursor + 1]
                   ELSE [drv EXCEPT !.cursor = 1,
                             !.phase = AfterMaps(batch, drv.maps, drv.components)]
       IN  IF ~s.finishes
           THEN \* mmap.finish(cmap) raises outside of any try: main ends
                /\ drv' = [drv EXCEPT !.phase = "aborted"]
                /\ errlog' = Append(errlog, Report("none", i, "", <<>>, 0,
                                 [type |-> "LayoutError", msg |-> "", element |-> <<>>]))
                /\ UNCHANGED <<targets, attempted>>
           ELSE \E refs \in Orders(references(s.root)) :
                  LET r == generate_memory_map(s.root, batch.xrefs, refs, cmap)
                  IN  /\ attempted' = Append(attempted, i)
                      /\ targets' = [targets EXCEPT ![i] = r.out]
                      /\ errlog' = IF r.err.type = "none" THEN errlog
                                   ELSE Append(errlog, Report("map", i, s.root.name,
                                                   s.root.sourcefile, 0, r.err))
                      /\ drv' = on
    /\ UNCHANGED <<batch, vhdl, legalVars, regVars, dispVars>>

\* one turn of "for comp in components": open the target, generate
GenerateComponent ==
    /\ drv.phase = "components"
    /\ LET i == drv.components[drv.cursor]
           s == batch.source[i]
           r == generate_single_component(s.root, TRUE)
       IN  /\ attempted' = Append(attempted, i)
           /\ targets' = [targets EXCEPT ![i] = r.out]
           /\ errlog' =
                IF r.err.type = "none" THEN errlog
                ELSE IF r.err.type = "OutputterError"
                THEN Append(errlog, Report("OutputterError", i, "",
                                r.err.element.sourcefile, r.err.element.sourceline, r.err))
                ELSE Append(errlog, Report("unknown", i, s.root.name,
                                s.root.sourcefile, 0, r.err))
           /\ drv' = IF drv.cursor < Len(drv.components)
                     THEN [drv EXCEPT !.cursor = drv.cursor + 1]
                     ELSE [drv EXCEPT !.cursor = 1, !.phase = "done"]
    /\ UNCHANGED <<batch, vhdl, legalVars, regVars, dispVars>>

\* the VHDL renderer run on one of the memory maps of the batch
RenderVhdlMap ==
    /\ drv.phase \in {"done", "aborted"}
    /\ \E i \in 1..Len(batch.source) :
          /\ batch.source[i].parses
          /\ batch.source[i].root.kind = "MemoryMap"
          /\ ~vhdl[i].rendered
          /\ vhdl' = [vhdl EXCEPT ![i] = [rendered |-> TRUE,
                          out |-> basic_visit_MemoryMap(batch.source[i].root)]]
    /\ UNCHANGED <<batch, drv, targets, errlog, attempted, legalVars, regVars, dispVars>>

NextBatch ==
    \/ ReadSource
    \/ GenerateMap
    \/ GenerateComponent
    \/ RenderVhdlMap

SpecBatch == InitBatch /\ [][NextBatch]_vars

-----------------------------------------------------------------------------
(* Properties of the batch driver                                           *)

\* main has returned, or has ended with an exception
BatchOver == drv # <<>> /\ drv.phase \in {"done", "aborted"}

\* the reports of the except clauses around generate for source i
GenerationReports(i) ==
    {k \in 1..Len(errlog) :
        errlog[k].source = i /\ errlog[k].handler \in {"map", "OutputterError", "unknown"}}

\* C16: when the generation of a component or memory map fails part-way, nothing
\* of that artifact has been written to its target; text reaches the target only
\* after the whole artifact was generated.
C16_NoPartialArtifact ==
    \A i \in DOMAIN targets : GenerationReports(i) # {} => targets[i] = <<>>

\* the sources main has to generate: read and finished without error, maps unless
\* --no-mmap, components when they go to files of their own
Due(i) ==
    LET s == batch.source[i]
    IN  /\ s.parses
        /\ s.finishes
        /\ s.root.kind = "MemoryMap" => batch.mmap
        /\ s.root.kind = "Component" => components_as_files(batch, drv.maps)

\* s lists its elements in the order of the command line, maps before components
InBatchOrder(s) ==
    \A a, b \in 1..Len(s) :
        a < b =>
            LET ka == batch.source[s[a]].root.kind
                kb == batch.source[s[b]].root.kind
            IN  \/ ka = "MemoryMap" /\ kb = "Component"
                \/ ka = kb /\ s[a] < s[b]

\* C17: whatever artifacts of a batch fail, in finishing or in generation, the
\* driver attempts the generation of every other artifact, in order.
C17_FailureIsolation ==
    BatchOver =>
        /\ \A i \in 1..Len(batch.source) : Due(i) => i \in Range(attempted)
        /\ InBatchOrder(attempted)

RECURSIVE Unsupported(_)
\* the elements of a tree that C generation has no rule for
Unsupported(node) ==
    (IF \/ node.kind = "Register" /\ node.size # 1
        \/ node.kind = "Register" /\ \E k \in 1..Len(node.children) :
                                         node.children[k].kind # "Field"
        \/ node.kind = "InstanceArray" /\ \/ Len(node.children) # 1
                                          \/ node.children[1].kind # "Instance"
     THEN {Element(node)} ELSE {})
    \cup UNION {Unsupported(node.children[k]) :
                   k \in {j \in 1..Len(node.children) :
                             node.children[j].kind \notin {"Field", "Instance"}}}

\* C18: an artifact holding an unsupported shape is aborted by an OutputterError
\* carrying the offending element, and the driver reports that element's source
\* file and line.
C18_UnsupportedShape ==
    \A n \in 1..Len(attempted) :
        LET i   == attempted[n]
            bad == Unsupported(batch.source[i].root)
        IN  /\ bad # {} => GenerationReports(i) # {}
            /\ \A k \in GenerationReports(i) :
                  /\ errlog[k].caught.type = "OutputterError"
                  /\ errlog[k].caught.element \in bad
                  /\ errlog[k].sourcefile = errlog[k].caught.element.sourcefile
                  /\ errlog[k].sourceline = errlog[k].caught.element.sourceline

\* the constants of the name nm among the lines
Named(lines, nm) ==
    {k \in 1..Len(lines) : lines[k].kind = "define" /\ lines[k].name = nm}

\* the number a constant stands for: its literal, or the constant it refers to
\* plus its literal
DefineValue(lines, k) ==
    IF lines[k].ref = <<>> THEN lines[k].val
    ELSE lines[k].val + lines[CHOOSE r \in Named(lines, lines[k].ref) : TRUE].val

\* the lines hold <MAP>_BASE = base, and for the occupied slots of the map, and
\* for nothing else, one <MAP>_<NAME>_BASE = base + offset each
HasBaseConstants(lines, mmap) ==
    LET items == SpaceItems(C_space(mmap))
    IN  /\ Cardinality(Named(lines, << mmap.name, "BASE" >>)) = 1
        /\ \A k \in Named(lines, << mmap.name, "BASE" >>) : DefineValue(lines, k) = mmap.base
        /\ \A n \in 1..Len(items) :
              LET nm == << mmap.name, mmap.children[items[n].obj].name, "BASE" >>
              IN  /\ Cardinality(Named(lines, nm)) = 1
                  /\ \A k \in Named(lines, nm) :
                        DefineValue(lines, k) = mmap.base + items[n].start
        /\ Cardinality({k \in 1..Len(lines) :
                           /\ lines[k].kind = "define"
                           /\ Len(lines[k].name) = 3
                           /\ lines[k].name[1] = mmap.name
                           /\ lines[k].name[3] = "BASE"}) = Len(items)

\* the memory maps of the batch whose C header was generated to its end
GeneratedMaps ==
    {i \in Range(attempted) :
        batch.source[i].root.kind = "MemoryMap" /\ GenerationReports(i) = {}}

\* the memory maps of the batch that the VHDL renderer was run on
RenderedMaps == {i \in DOMAIN vhdl : vhdl[i].rendered}

\* C19: both renderers emit, for a memory map, <MAP>_BASE equal to the base of
\* the map and exactly one <MAP>_<NAME>_BASE per occupied slot, equal to the
\* base plus the offset of the slot.
C19_MapBaseConstants ==
    /\ \A i \in GeneratedMaps : HasBaseConstants(targets[i], batch.source[i].root)
    /\ \A i \in RenderedMaps : HasBaseConstants(vhdl[i].out, batch.source[i].root)

\* the lines of a kind
OfKind(lines, kind) == {k \in 1..Len(lines) : lines[k].kind = kind}

\* the source file of the component of a name
SourceFileOf(nm) ==
    batch.source[CHOOSE i \in 1..Len(batch.source) :
                     batch.source[i].root.name = nm].root.sourcefile

\* the lines that refer to the bound components: includes and inlined bodies
ReferenceLines(lines, mmap) ==
    OfKind(lines, "include") \cup OfKind(lines, "typedef_open")
    \cup OfKind(lines, "typedef_close")
    \cup {k \in OfKind(lines, "define") \cup OfKind(lines, "hexdefine")
                 \cup OfKind(lines, "macro") \cup OfKind(lines, "enumdef") :
              lines[k].name[1] \in BoundComponents(mmap)}

\* the references of the map in lines are as its external_reference flag asks
ReferencesAsAsked(lines, mmap, external_reference) ==
    LET bound    == BoundComponents(mmap)
        includes == OfKind(lines, "include")
        bodies   == OfKind(lines, "typedef_close")
        bases    == {k \in OfKind(lines, "define") : lines[k].name[1] = mmap.name}
        pointers == OfKind(lines, "peripheral")
    IN  /\ \A c \in bound :
              /\ Cardinality({k \in includes :
                     lines[k].file = << SourceFileOf(c)[1], "h" >>})
                   = (IF external_reference THEN 1 ELSE 0)
              /\ Cardinality({k \in bodies : lines[k].name = c})
                   = (IF external_reference THEN 0 ELSE 1)
        /\ Cardinality(includes) = (IF external_reference THEN Cardinality(bound) ELSE 0)
        /\ Cardinality(bodies) = (IF external_reference THEN 0 ELSE Cardinality(bound))
        /\ Cardinality(OfKind(lines, "typedef_open")) = Cardinality(bodies)
        \* the only include guard is the map's own
        /\ \A k \in OfKind(lines, "ifndef") :
              k = 2 /\ lines[k].hdr = << mmap.sourcefile[1], "h" >>
        /\ Cardinality(OfKind(lines, "endif")) = 1
        /\ bases # {} /\ pointers # {}
        /\ \A r \in ReferenceLines(lines, mmap), b \in bases : r < b
        /\ \A b \in bases, q \in pointers : b < q

\* C20: a generated memory map refers to every distinct component its instances
\* and instance arrays bind exactly once -- by one #include and no body with
\* external_reference, by one inlined body without include guard and no
\* #include otherwise -- before the base constants, which precede the
\* peripheral pointers.
C20_ComponentReferences ==
    \A i \in GeneratedMaps :
        ReferencesAsAsked(targets[i], batch.source[i].root, batch.xrefs)

\* SOC, whose three children bind UART twice and TIMER once, generated inline
C20_Witness ==
    \E i \in GeneratedMaps :
        /\ batch.source[i].root = SOC
        /\ ~batch.xrefs
        /\ Cardinality(OfKind(targets[i], "typedef_close")) = 2
        /\ Cardinality(OfKind(targets[i], "peripheral")) = 3

-----------------------------------------------------------------------------
(* One component rendered to a C header: "component_to_c.py dev.xml"        *)

WordBits == 32

\* the enums of a field: none, one, two
FieldEnums ==
    { <<>>,
      << [name |-> "ON", value |-> 1] >>,
      << [name |-> "OFF", value |-> 0], [name |-> "ON", value |-> 1] >> }

\* a component of one register holding one field, at every place in the word
FieldComponents ==
    {HtiComponent("DEV", "dev", 1, <<
         HtiRegister("CTRL", "dev", 3, 0, 1, "rw", <<
             HtiField("F", p[1], p[2], e) >>) >>) :
        p \in {q \in (0..WordBits - 1) \X (1..WordBits) : q[1] + q[2] <= WordBits},
        e \in FieldEnums}

RECURSIVE HtiRegistersAt(_, _, _)
\* the registers of the words i.. of a space, named after their position
HtiRegistersAt(cells, names, i) ==
    IF i > Len(cells) THEN <<>>
    ELSE (IF cells[i] = "gap" THEN <<>>
          ELSE << HtiRegister(names[i], "dev", 2 + i, i - 1, 1, cells[i], <<>>) >>)
         \o HtiRegistersAt(cells, names, i + 1)

\* registers and gaps, then an array of frames of registers and gaps, then a
\* gap of up to two words
LayoutComponents ==
    {HtiComponent("DEV", "dev", Len(pre) + Len(f) * n + tail,
         HtiRegistersAt(pre, PreNames, 1)
         \o << HtiRegisterArray("ARR", "dev", 9, Len(pre), n, Len(f),
                                 HtiRegistersAt(f, FrameNames, 1)) >>) :
        pre \in PreCells, f \in FrameCells, n \in 1..MaxFrameCount, tail \in 0..2}

HeaderComponents == FieldComponents \cup LayoutComponents \cup {UART, TIMER}

InitHeader ==
    /\ LegalIdle
    /\ RegIdle
    /\ DispIdle
    /\ \E c \in HeaderComponents :
          batch = [mmap |-> TRUE, xrefs |-> FALSE, source |-> << Source(c, TRUE, TRUE) >>]
    /\ drv = [phase |-> "read", cursor |-> 1, components |-> <<>>, maps |-> <<>>]
    /\ targets = [i \in 1..Len(batch.source) |-> <<>>]
    /\ errlog = <<>>
    /\ attempted = <<>>
    /\ vhdl = [i \in 1..Len(batch.source) |-> [rendered |-> FALSE, out |-> <<>>]]

NextHeader ==
    \/ ReadSource
    \/ GenerateComponent

SpecHeader == InitHeader /\ [][NextHeader]_vars

RECURSIVE HtiRegisters(_)
\* the registers of a component, those of its arrays included
HtiRegisters(node) ==
    UNION {IF node.children[k].kind = "Register" THEN {node.children[k]}
           ELSE HtiRegisters(node.children[k]) : k \in 1..Len(node.children)}

\* the components of the batch whose header was generated to its end
GeneratedComponents ==
    {i \in Range(attempted) :
        batch.source[i].root.kind = "Component" /\ GenerationReports(i) = {}}

\* the lines whose name is nm, and those whose name begins with nm
NamedLines(lines, nm) ==
    {k \in 1..Len(lines) :
        lines[k].kind \in {"define", "hexdefine", "macro", "enumdef"} /\ lines[k].name = nm}

PrefixedLines(lines, nm) ==
    {k \in 1..Len(lines) :
        /\ lines[k].kind \in {"define", "hexdefine", "macro", "enumdef"}
        /\ Len(lines[k].name) >= Len(nm)
        /\ SubSeq(lines[k].name, 1, Len(nm)) = nm}

\* macro(x) of a macro line: x shifted left by the value of the LSB constant
MacroOf(lines, k, x) ==
    Shl(x, lines[CHOOSE d \in NamedLines(lines, lines[k].lsb) : TRUE].val)

\* v >> n
Shr(v, n) == {b - n : b \in {c \in v : c >= n}}

\* the constants of field f of register r of component c are as C21 says
FieldConstantsRight(lines, c, r, f) ==
    LET F     == << c.name, r.name, f.name >>
        lsb   == NamedLines(lines, F \o <<"LSB">>)
        mask  == NamedLines(lines, F \o <<"MASK">>)
        plain == NamedLines(lines, F)
        xs    == { {}, {0}, {f.size - 1}, 0..f.size - 1 }
    IN  /\ Cardinality(lsb) = 1
        /\ \A k \in lsb : lines[k].kind = "define" /\ lines[k].val = f.offset
        /\ Cardinality(plain) = 1
        /\ IF f.size = 1 /\ f.enums = <<>>
           THEN /\ \A k \in plain :
                      lines[k].kind = "hexdefine" /\ lines[k].bits = {f.offset}
                /\ PrefixedLines(lines, F) = lsb \cup plain
           ELSE /\ Cardinality(mask) = 1
                /\ \A k \in mask :
                      /\ lines[k].kind = "hexdefine"
                      /\ lines[k].bits = f.offset .. f.offset + f.size - 1
                /\ \A k \in plain, m \in mask, x \in xs :
                      /\ lines[k].kind = "macro"
                      /\ MacroOf(lines, k, x) \cap lines[m].bits = MacroOf(lines, k, x)
                      /\ Shr(MacroOf(lines, k, x), f.offset) = x
                /\ \A e \in 1..Len(f.enums) :
                      LET en == NamedLines(lines, F \o << f.enums[e].name >>)
                      IN  /\ Cardinality(en) = 1
                          /\ \A k \in en :
                                /\ lines[k].kind = "enumdef"
                                /\ lines[k].macro = F
                                /\ lines[k].arg = f.enums[e].value
                /\ Cardinality(PrefixedLines(lines, F)) = 3 + Len(f.enums)
        /\ \A k \in PrefixedLines(lines, F) :
              lines[k].kind = "hexdefine" => \A b \in lines[k].bits : b < WordBits

\* C21: every field of a generated header has <C>_<R>_<F>_LSB = offset; a
\* one-bit field without enums has besides only <C>_<R>_<F> = 2^offset; any
\* other field has _MASK = (2^size - 1) * 2^offset, the macro shifting by LSB
\* (inside the mask and undone by the right shift) and one constant per enum
\* equal to the macro of its value; all within 32 bits.
C21_FieldConstants ==
    \A i \in GeneratedComponents :
        LET c == batch.source[i].root
        IN  \A r \in HtiRegisters(c) :
                \A n \in 1..Len(r.children) :
                    FieldConstantsRight(targets[i], c, r, r.children[n])

\* a two-bit field at the top of the word, with two enums
C21_Witness ==
    \E i \in GeneratedComponents :
        \E r \in HtiRegisters(batch.source[i].root) :
            /\ r.children # <<>>
            /\ r.children[1].offset = 30 /\ r.children[1].size = 2
            /\ Len(r.children[1].enums) = 2
            /\ NamedLines(targets[i], << "DEV", "CTRL", "F", "MASK" >>) # {}

-----------------------------------------------------------------------------
(* The type pass of the VHDL package (vhdl.py, GenerateTypes).              *)
(*                                                                         *)
(* A visitor is [out, scope]: the lines printed and the scoped variables   *)
(* enumlines, registername, field, fieldtype.                              *)

\* the scoped variables before any "with self.tempvars(...)"
NoScope == [enumlines |-> <<>>, registername |-> "", field |-> <<>>, fieldtype |-> <<>>]

\* register_format(element): std_logic for one bit, else <fmt>(width-1 downto 0)
vhdl_register_format(element) ==
    IF element.width = 1 THEN << "std_logic" >>
    ELSE << element.format, element.width - 1 >>

\* GenerateTypes.namer
namer(node) ==
    IF node.kind = "Register" THEN << "t", node.name >> ELSE << "ta", node.name >>

\* leaving "with self.tempvars(...)": the variables it set get their prior values
tempvars_exit(v, saved, keys) ==
    [v EXCEPT !.scope = [k \in DOMAIN v.scope |->
                            IF k \in keys THEN saved[k] ELSE v.scope[k]]]

\* self.print / self.printf
Emit(v, lines) == [v EXCEPT !.out = v.out \o lines]

RECURSIVE Types_visit(_, _)
RECURSIVE Types_visitchildren(_, _, _)

\* Visitor.visitchildren: the children i.. of node, in order
Types_visitchildren(v, node, i) ==
    IF i > Len(node.children) THEN v
    ELSE Types_visitchildren(Types_visit(v, node.children[i]), node, i + 1)

\* the members of the record of a Component or RegisterArray
Types_members(node) ==
    LET items == SpaceItems(NodeSpace(node))
    IN  [k \in 1..Len(items) |->
            [kind |-> "member", name |-> node.children[items[k].obj].identifier,
             type |-> namer(node.children[items[k].obj])]]

Types_visit_Component(v, node) ==
    LET v1 == Emit(v, << [kind |-> "busdata", high |-> node.width - 1] >>)
        v2 == Types_visitchildren(v1, node, 1)
    IN  Emit(v2, << [kind |-> "record_open", name |-> << "t", node.name, "regfile" >>] >>
                 \o Types_members(node)
                 \o << [kind |-> "record_close", name |-> << "t", node.name, "regfile" >>] >>)

Types_visit_RegisterArray(v, node) ==
    LET v1     == Types_visitchildren(v, node, 1)
        fields == Types_members(node)
        single == Len(fields) = 1
        base   == IF single THEN fields[1].type ELSE << "tb", node.name >>
    IN  Emit(v1, (IF single THEN <<>>
                  ELSE << [kind |-> "record_open", name |-> base] >> \o fields
                       \o << [kind |-> "record_close", name |-> base] >>)
                 \o << [kind |-> "array", name |-> namer(node), high |-> ArrayHigh(node),
                        of |-> base] >>)

\* mutant: enumlines is not scoped, one list serves every register
Types_visit_Register_sharedEnums(v, node) ==
    IF node.children # <<>>
    THEN LET saved == v.scope
             v1 == [v EXCEPT !.scope.registername = node.name]
             v2 == Emit(v1, << [kind |-> "record_open", name |-> << "t", node.name >>] >>)
             v3 == Types_visitchildren(v2, node, 1)
             v4 == Emit(v3, << [kind |-> "record_close", name |-> << "t", node.name >>] >>)
             v5 == Emit(v4, v4.scope.enumlines)
         IN  tempvars_exit(v5, saved, {"registername"})
    ELSE Emit(v, << [kind |-> "subtype", name |-> << "t", node.name >>,
                     type |-> vhdl_register_format(node)] >>)

Types_visit_Register(v, node) ==
    IF node.children # <<>>
    THEN LET saved == v.scope
             v1 == [v EXCEPT !.scope.enumlines = <<>>, !.scope.registername = node.name]
             v2 == Emit(v1, << [kind |-> "record_open", name |-> << "t", node.name >>] >>)
             v3 == Types_visitchildren(v2, node, 1)
             v4 == Emit(v3, << [kind |-> "record_close", name |-> << "t", node.name >>] >>)
             v5 == Emit(v4, v4.scope.enumlines)
         IN  tempvars_exit(v5, saved, {"enumlines", "registername"})
    ELSE Emit(v, << [kind |-> "subtype", name |-> << "t", node.name >>,
                     type |-> vhdl_register_format(node)] >>)

Types_visit_Field(v, node) ==
    LET saved == v.scope
        v1 == [v EXCEPT !.scope.field = node,
                        !.scope.fieldtype = vhdl_register_format(node)]
        v2 == Emit(v1, << [kind |-> "member", name |-> node.identifier,
                           type |-> v1.scope.fieldtype] >>)
        v3 == Types_visitchildren(v2, node, 1)
    IN  tempvars_exit(v3, saved, {"field", "fieldtype"})

\* the constant is '"{:0{}b}".format(value, width)': value in width binary digits
Types_visit_Enum(v, node) ==
    [v EXCEPT !.scope.enumlines =
        Append(@, [kind |-> "constant",
                   name |-> << v.scope.registername, v.scope.field.name, node.name >>,
                   type |-> v.scope.fieldtype, value |-> node.value,
                   digits |-> v.scope.field.width])]

Types_visit(v, node) ==
    CASE node.kind = "Component"     -> Types_visit_Component(v, node)
      [] node.kind = "RegisterArray" -> Types_visit_RegisterArray(v, node)
      [] node.kind = "Register"      -> Types_visit_Register(v, node)
      [] node.kind = "Field"         -> Types_visit_Field(v, node)
      [] node.kind = "Enum"          -> Types_visit_Enum(v, node)

\* GenerateTypes(output).execute(node)
GenerateTypes(node) == Types_visit([out |-> <<>>, scope |-> NoScope], node)

TypeEnum(nm, val) ==
    [kind |-> "Enum", name |-> nm, identifier |-> nm, value |-> val, children |-> <<>>]

\* the enums of a field: none, one, two
EnumLists ==
    { <<>>, << TypeEnum("X", 0) >>, << TypeEnum("X", 0), TypeEnum("Y", 1) >> }

\* field j of a register: j bits wide, at the bits after field j - 1
TypeField(j, enums) ==
    [kind |-> "Field", name |-> MemberNames[j], identifier |-> MemberIdentifiers[j],
     offset |-> (j * (j - 1)) \div 2, size |-> j, width |-> j, format |-> "unsigned",
     children |-> enums]

\* the field lists of a register: none (a simple register), or 1..MaxFields fields
FieldLists ==
    UNION {{[j \in 1..n |-> TypeField(j, e[j])] : e \in [1..n -> EnumLists]} :
              n \in 0..MaxFields}

TypeRegister(nm, off, fields) ==
    [kind |-> "Register", name |-> nm, identifier |-> nm, offset |-> off, size |-> 1,
     width |-> 8, format |-> "bits", readOnly |-> FALSE, writeOnly |-> FALSE,
     children |-> fields]

\* two registers, then an array of two frames of one register
TypeComponents ==
    {[kind |-> "Component", name |-> "uart", width |-> 8, size |-> 4,
      children |-> << TypeRegister("CTRL", 0, f1), TypeRegister("STAT", 1, f2),
                      ArrayNode(2, << TypeRegister("DATA", 0,
                                          << TypeField(1, << TypeEnum("Z", 1) >>) >>) >>,
                                1, 2) >>] :
        f1 \in FieldLists, f2 \in FieldLists}

InitTypes ==
    /\ LegalIdle
    /\ RegIdle
    /\ BatchIdle
    /\ comp \in TypeComponents
    /\ offset = 0
    /\ dispop = ""
    /\ outcome = <<>>

\* GenerateTypes(self.output).execute(node), from basic.visit_Component
CallGenerateTypes ==
    /\ dispop = ""
    /\ dispop' = "TYPES"
    /\ outcome' = GenerateTypes(comp)
    /\ UNCHANGED <<comp, offset, legalVars, regVars, batchVars>>

\* GenerateFunctionBodies.visit_Register: the bodies of DAT_TO_<reg>,
\* <reg>_TO_DAT and UPDATE_<reg>
Bodies_visit_Register(node) ==
    LET r == [name |-> node.name, identifier |-> node.identifier, width |-> node.width,
              buswidth |-> node.width, fields |-> node.children]
    IN  [register |-> node.name, d2r |-> GenerateD2R(r), r2d |-> GenerateR2D(r),
         update |-> GenerateRegUpdate(r)]

\* GenerateFunctionBodies.visit_RegisterArray: the case lines of the READ and
\* UPDATE of an array whose frame has more than one slot
Bodies_visit_RegisterArray(node) ==
    [array |-> node.name,
     read |-> IF IsSimpleArray(node) THEN <<>> ELSE _readwhenlines(node),
     update |-> IF IsSimpleArray(node) THEN <<>> ELSE _updatewhenlines(node)]

\* GenerateFunctionBodies(output).execute(node): the bodies of the registers
\* and arrays, then the case lines of READ_REGFILE and UPDATE_REGFILE
GenerateFunctionBodies(node) ==
    [registers |-> {Bodies_visit_Register(rg) : rg \in HtiRegisters(node)},
     arrays |-> {Bodies_visit_RegisterArray(node.children[k]) :
                    k \in {j \in 1..Len(node.children) :
                              node.children[j].kind = "RegisterArray"}},
     read |-> _readwhenlines(node),
     update |-> _updatewhenlines(node)]

\* GenerateFunctionBodies(self.output).execute(node), from basic.visit_Component
\* after the type pass
CallGenerateFunctionBodies ==
    /\ dispop = "TYPES"
    /\ dispop' = "BODIES"
    /\ outcome' = [out |-> outcome.out, scope |-> outcome.scope,
                   bodies |-> GenerateFunctionBodies(comp)]
    /\ UNCHANGED <<comp, offset, legalVars, regVars, batchVars>>

NextTypes == CallGenerateTypes \/ CallGenerateFunctionBodies

SpecTypes == InitTypes /\ [][NextTypes]_vars

RECURSIVE OwnConstants(_, _)
\* the constants of the enums of the fields i.. of a register, in field then
\* enum declaration order
OwnConstants(rg, i) ==
    IF i > Len(rg.children) THEN <<>>
    ELSE LET f == rg.children[i]
         IN  [k \in 1..Len(f.children) |->
                 [kind |-> "constant", name |-> << rg.name, f.name, f.children[k].name >>,
                  type |-> vhdl_register_format(f), value |-> f.children[k].value,
                  digits |-> f.width]]
             \o OwnConstants(rg, i + 1)

\* the constants printed directly after line b
ConstantsAfter(out, b) ==
    LET n == CHOOSE m \in 0..(Len(out) - b) :
                 /\ \A k \in 1..m : out[b + k].kind = "constant"
                 /\ b + m = Len(out) \/ out[b + m + 1].kind # "constant"
    IN  SubSeq(out, b + 1, b + n)

\* the lines that close the record of register rg, or declare its subtype
TypeLines(out, rg) ==
    {k \in 1..Len(out) :
        /\ out[k].kind = (IF rg.children # <<>> THEN "record_close" ELSE "subtype")
        /\ out[k].name = << "t", rg.name >>}

\* C22: in the type pass the constants printed directly after the record of a
\* complex register are exactly the enums of its own fields, in field then enum
\* order, named <register>_<field>_<enum> with the type and width of the field;
\* none follows a simple register, and on return the scoped variables have
\* their prior values.
C22_ScopedTypePass ==
    dispop = "TYPES" =>
        /\ \A rg \in HtiRegisters(comp) :
              /\ Cardinality(TypeLines(outcome.out, rg)) = 1
              /\ \A b \in TypeLines(outcome.out, rg) :
                    ConstantsAfter(outcome.out, b) = OwnConstants(rg, 1)
        /\ \A k \in OfKind(outcome.out, "constant") :
              \E rg \in HtiRegisters(comp) :
                  \E b \in TypeLines(outcome.out, rg) :
                      b < k /\ k <= b + Len(OwnConstants(rg, 1))
        /\ outcome.scope = NoScope

\* CTRL has enums on both of its fields, its sibling STAT has fields without
\* enums, and the register of the array has an enum of its own
C22_Witness ==
    /\ dispop = "TYPES"
    /\ Len(OwnConstants(comp.children[1], 1)) = 3
    /\ comp.children[2].children # <<>>
    /\ OwnConstants(comp.children[2], 1) = <<>>
    /\ Cardinality(OfKind(outcome.out, "constant")) = 4

-----------------------------------------------------------------------------
(* Further properties of the register functions                            *)

\* C23: in UPDATE of a simple register of width w the range assigned under
\* byteen(k) is [8k, min(8k + 7, w - 1)]: inside the register, disjoint from
\* the other lanes, every bit covered once, and a lane of a single bit uses
\* the single-bit form.
C23_SimpleLaneRanges ==
    (regop = "UPDATE" /\ ~IsComplex(reg)) =>
        LET blocks == Update_simpleRegister(reg)
            w      == reg.width
        IN  /\ \A k \in 1..Len(blocks) :
                  LET s == blocks[k].stmts[1]
                  IN  /\ blocks[k].lane = k - 1
                      /\ s.fl = LaneBits * (k - 1)
                      /\ s.fh = Min(LaneBits * (k - 1) + 7, w - 1)
                      /\ s.dl = s.fl /\ s.dh = s.fh
                      /\ s.single <=> (s.fl = s.fh)
            /\ \A b \in 0..(w - 1) :
                  Cardinality({k \in 1..Len(blocks) :
                      blocks[k].stmts[1].fl <= b /\ b <= blocks[k].stmts[1].fh}) = 1

-----------------------------------------------------------------------------
(* Further properties of legalization                                       *)

\* C24: after legalization the identifier of no entity but an Enum is a VHDL
\* reserved word in any letter case, whatever the names were -- also when a
\* name becomes a reserved word by the replacement of its illegal characters.
C24_NoReservedIdentifier ==
    PassReturned => \A n \in NonEnum : ~ReservedWord(identifier[n])

-----------------------------------------------------------------------------
(* GET_ADDR and the address subtype (vhdl.py)                               *)

RECURSIVE bit_length(_)
\* int.bit_length()
bit_length(n) == IF n = 0 THEN 0 ELSE 1 + bit_length(n \div 2)

\* maxaddr = (node.size * node.width // 8) - 1; high = maxaddr.bit_length() - 1
GET_ADDR_high(node) == bit_length((node.size * node.width) \div 8 - 1) - 1

\* TO_INTEGER(address(high downto 0)); a null slice (high = -1) has the value 0
GET_ADDR(node, address) == address % (2 ^ (GET_ADDR_high(node) + 1))

\* subtype t_addr is integer range 0 to node.size - 1
t_addr(node) == 0..(node.size - 1)

\* the most words a component of the dispatch model has
MaxWords == MaxPre + MaxFrameSize * MaxFrameCount

\* components of 1..MaxWords words of 8, 16 or 32 bits
AddrComponents ==
    {[kind |-> "Component", name |-> "uart", size |-> s, width |-> w,
      children |-> <<>>] : s \in 1..MaxWords, w \in {8, 16, 32}}

\* the address vectors: every byte address of the largest component, and beyond
AddressVectors == 0..(8 * MaxWords)

InitAddr ==
    /\ LegalIdle
    /\ RegIdle
    /\ BatchIdle
    /\ comp \in AddrComponents
    /\ offset = 0
    /\ dispop = ""
    /\ outcome = <<>>

\* GET_ADDR(address)
CallGetAddr ==
    /\ dispop = ""
    /\ \E a \in AddressVectors :
          /\ offset' = a
          /\ outcome' = [addr |-> GET_ADDR(comp, a)]
    /\ dispop' = "GET_ADDR"
    /\ UNCHANGED <<comp, legalVars, regVars, batchVars>>

NextAddr == CallGetAddr

SpecAddr == InitAddr /\ [][NextAddr]_vars

\* C25: what GET_ADDR returns lies in t_addr, 0 .. size - 1, for every address
\* vector, and the high bit of its slice is at least 0.
C25_GetAddrInRange ==
    dispop = "GET_ADDR" =>
        /\ outcome.addr \in t_addr(comp)
        /\ GET_ADDR_high(comp) >= 0

-----------------------------------------------------------------------------
(* The layout of the struct t_<component>                                   *)

\* n copies of the words of a frame, each word tagged with its frame
Frames_of(inner, n) ==
    [k \in 1..(n * Len(inner)) |->
        [inner[((k - 1) % Len(inner)) + 1] EXCEPT !.frame = (k - 1) \div Len(inner)]]

RECURSIVE StructWords(_, _, _)
\* the 32-bit words that the member declarations in lines i..j-1 lay out, in
\* memory order: which register a word is, of which array element, or which
\* reserved member (arrays are not nested)
StructWords(lines, i, j) ==
    IF i >= j THEN <<>>
    ELSE LET l == lines[i]
         IN  CASE l.kind = "rsvd" ->
                    << [reg |-> "rsvd", frame |-> -1, pos |-> l.pos] >>
                    \o StructWords(lines, i + 1, j)
               [] l.kind = "member" ->
                    (IF l.count = 0
                     THEN << [reg |-> l.name, frame |-> -1, pos |-> -1] >>
                     ELSE [k \in 1..l.count |->
                              [reg |-> l.name, frame |-> k - 1, pos |-> -1]])
                    \o StructWords(lines, i + 1, j)
               [] l.kind = "struct_open" ->
                    LET c == CHOOSE k \in (i + 1)..j :
                                 /\ lines[k].kind = "struct_close"
                                 /\ \A m \in (i + 1)..(k - 1) :
                                       lines[m].kind # "struct_close"
                    IN  Frames_of(StructWords(lines, i + 1, c), lines[c].count)
                        \o StructWords(lines, c + 1, j)
               [] OTHER -> StructWords(lines, i + 1, j)

\* the words of typedef struct { ... } t_<comp>
TypedefWords(lines) ==
    StructWords(lines,
                (CHOOSE k \in 1..Len(lines) : lines[k].kind = "typedef_open") + 1,
                CHOOSE k \in 1..Len(lines) : lines[k].kind = "typedef_close")

\* what the address map of component c has at word w: a register, a register
\* of frame f of an array, or nothing
WordOf(c, w) ==
    LET here == {k \in 1..Len(c.children) :
                    c.children[k].offset <= w
                    /\ w < c.children[k].offset + c.children[k].size}
    IN  IF here = {} THEN [reg |-> "rsvd", frame |-> -1, pos |-> w]
        ELSE LET a == c.children[CHOOSE k \in here : TRUE]
             IN  IF a.kind = "Register" THEN [reg |-> a.name, frame |-> -1, pos |-> -1]
                 ELSE LET f    == (w - a.offset) \div a.framesize
                          rel  == (w - a.offset) % a.framesize
                          regs == {k \in 1..Len(a.children) : a.children[k].offset = rel}
                      IN  IF regs = {} THEN [reg |-> "rsvd", frame |-> f, pos |-> rel]
                          ELSE [reg |-> a.children[CHOOSE k \in regs : TRUE].name,
                                frame |-> f, pos |-> -1]

-----------------------------------------------------------------------------
(* Peripheral pointers and their base constants                             *)

\* the peripheral declarations among the lines whose base macro no earlier
\* line defines
UndefinedBases(lines) ==
    {k \in OfKind(lines, "peripheral") :
        ~ \E d \in Named(lines, lines[k].base) : d < k}

\* C27: in the header of a memory map, the <MAP>_<X>_BASE macro that a
\* peripheral declaration uses, for an instance and for an instance array, is
\* one of the constants that generate_baseaddrs emitted before it.
C27_PeripheralBases ==
    \A i \in GeneratedMaps : UndefinedBases(targets[i]) = {}

-----------------------------------------------------------------------------
(* Record members across the passes                                         *)

\* the members that the type pass declares for the record of the name nm
RecordMembers(out, nm) ==
    LET o == CHOOSE k \in 1..Len(out) : out[k].kind = "record_open" /\ out[k].name = nm
        c == CHOOSE k \in o..Len(out) : out[k].kind = "record_close" /\ out[k].name = nm
    IN  {out[k].name : k \in (o + 1)..(c - 1)}

\* the members that the case lines select
WhenMembers(lines) ==
    {lines[k].member : k \in {j \in 1..Len(lines) : lines[j].kind # "others"}}

\* the members that the bodies of a register name
D2RMembers(b) == {b.d2r[k].member : k \in 1..Len(b.d2r)}

R2DMembers(b) == {b.r2d[k].member : k \in 1..Len(b.r2d)}

UpdateMembers(b) ==
    UNION {{b.update[k].stmts[j].member : j \in 1..Len(b.update[k].stmts)} :
              k \in 1..Len(b.update)}

\* C28: the member names in the aggregate of DAT_TO_<reg>, in <reg>_TO_DAT and
\* in UPDATE_<reg> are the members that the type pass declared for t_<reg>
\* (the aggregate names every one of them), and the members that READ_REGFILE
\* and UPDATE_REGFILE select are members of t_<comp>_regfile, also when an
\* identifier differs from the name.
C28_MemberNames ==
    dispop = "BODIES" =>
        /\ \A rg \in {r \in HtiRegisters(comp) : r.children # <<>>} :
              \A b \in {x \in outcome.bodies.registers : x.register = rg.name} :
                  LET declared == RecordMembers(outcome.out, << "t", rg.name >>)
                  IN  /\ D2RMembers(b) = declared
                      /\ R2DMembers(b) \subseteq declared
                      /\ UpdateMembers(b) \subseteq declared
        /\ LET declared == RecordMembers(outcome.out, << "t", comp.name, "regfile" >>)
           IN  /\ WhenMembers(outcome.bodies.read) \subseteq declared
               /\ WhenMembers(outcome.bodies.update) \subseteq declared


====
